---- MODULE Spec2Model ----
(***************************************************************************)
(* retainit: the caching execution engine.                                 *)
(*                                                                         *)
(*   backends/memory.py  MemoryCache   (dict + LRU eviction, one lock)     *)
(*   backends/disk.py    DiskCache     (one file per key, per-path locks,  *)
(*                                      temp-then-rename writes)           *)
(*   core.py             CacheManager  (orchestrator, notifications)       *)
(*   core.py             _get_cached_value (the call bridge)               *)
(*                                                                         *)
(* Scheduling: every operation is a coroutine on one asyncio event loop.   *)
(* A coroutine runs without interruption until it awaits something that    *)
(* really suspends: a lock that is held, or deferred wrapped work.  The    *)
(* model gives each caller a position pc; a caller whose pc is in          *)
(* BusyStages is the one the loop is executing and no other caller may     *)
(* step.  The file system calls of DiskCache.set are separate steps so     *)
(* that the states between them are visible to a process kill.             *)
(***************************************************************************)
EXTENDS Integers, Sequences, FiniteSets, TLC

\* ---------------------------------------------------------------- bounds
MaxTime == 3          \* the clock runs from 1 to MaxTime
MaxCap == 2           \* largest max_size the settings may carry

\* ------------------------------------------------------------- constants
NoneT == -1           \* Python None in a time / ttl / size position
NoneV == "None"       \* Python None in a value position

Tasks == {1, 2}
Keys == {"k1", "k2", "k3"}
Values == {NoneV, "v1"}
TTLs == {NoneT, 0, 1}
WorkErrors == {"ValueError"}

\* Python truthiness of an Optional number: None and 0 are falsy.
Truthy(x) == x # NoneT /\ x # 0

\* A default that replaces None only.
PyOrNoneOnly(a, b) == IF a # NoneT THEN a ELSE b

\* `a or b` on Optional numbers.
PyOr(a, b) == IF Truthy(a) THEN a ELSE b

VARIABLES
    now,            \* time.time()
    backend,        \* settings.backend
    max_size,       \* settings.max_size
    settings_ttl,   \* settings.ttl
    compression,    \* settings.compression
    initialized,    \* CacheManager._initialized
    backend_obj,    \* CacheManager._backend: 0 is None, n the n-th backend
                    \* this process constructed
    cache,          \* MemoryCache.cache, in dict (insertion) order
    mlock,          \* MemoryCache.lock: 0 free, else the holder
    fs,             \* the directory tree under base_directory: path -> file
    file_locks,     \* DiskCache.file_locks, in dict order
    global_lock,    \* DiskCache.global_lock: 0 free, else the holder
    dom,            \* the inputs the callers of this run draw from
    rt,             \* per key: the value of the last completed never-expiring set
    task,           \* per caller: position and locals
    keyer,          \* a decorated function: its decorator arguments, the
                    \* calls made so far and the cache keys built for them
    emitter         \* events: _enabled, _default_handlers, _handlers and
                    \* what the last emit did

vars == <<now, backend, max_size, settings_ttl, compression, initialized,
          backend_obj,
          cache, mlock, fs, file_locks, global_lock, dom, rt, task, keyer,
          emitter>>

\* What no operation of the cache changes.
settingsVars == <<backend, max_size, settings_ttl, dom, keyer, emitter>>
memVars == <<cache, mlock>>
diskVars == <<fs, file_locks, global_lock>>

\* ------------------------------------------------------------ records
Res(k, v) == [kind |-> k, v |-> v]
NoRes == Res("none", NoneV)

NoData == [value |-> NoneV, expiry |-> NoneT]
NoSeen == [present |-> FALSE, value |-> NoneV, expired |-> FALSE]
NoRt == [v |-> "-", by |-> "-"]

\* logger.debug("Evicted LRU item with key: ..."): nothing logged yet
NoEvicted == [key |-> "-", last_access |-> NoneT, pos |-> 0, expiry |-> NoneT]

\* The data of a notification: its type, the "operation" field ("none"
\* where the data has no such field) and the "key" field.
Event(ty, op, k) == [type |-> ty, operation |-> op, key |-> k]

\* What a completed set leaves in rt: the value if the entry never expires,
\* and the operation that stored it.
Stored(v, e, op) == [v |-> IF e = NoneT THEN v ELSE "-", by |-> op]

IdleTask ==
    [pc |-> "idle", op |-> "none", bop |-> "none", key |-> "k1",
     val |-> NoneV, bttl |-> NoneT, deferred |-> FALSE,
     data |-> NoData, bres |-> NoRes, ret |-> NoRes, trace |-> <<>>,
     seen |-> NoSeen, rtv |-> NoRt, iofail |-> FALSE, ev |-> NoEvicted,
     count |-> 0, obackend |-> NoneV, ttl |-> NoneT]

\* Positions at which the event loop is executing the caller.
BusyStages == {"backend", "mgr_ret", "work", "executing", "done",
               "io_mkdir", "io_open", "io_write", "io_replace"}
Busy(u) == task[u].pc \in BusyStages
CanRun(t) == \A u \in Tasks \ {t} : ~Busy(u)

\* ------------------------------------- CacheManager._ensure_initialized
\* The modules the package ships: backends/memory.py and backends/disk.py.
Shipped == {"memory", "disk"}

\* What _ensure_initialized raises to the caller.
ConstructErrors == {"RuntimeError", "OSError(base_directory)"}

\* An orchestrator that falls back to the memory backend.
ConstructFallback(b) == IF b \in Shipped THEN b ELSE "memory"

\* The class _ensure_initialized constructs for settings.backend b.  For
\* redis, s3 and dynamodb either the settings of the kind are missing or
\* the import of the backend's module fails: RuntimeError.
Construct(b) == IF b \in Shipped THEN b ELSE "RuntimeError"

\* A manager that constructs a backend on every call.
ConstructedAnew(init, obj) == IF obj < 2 THEN obj + 1 ELSE obj

\* `if not self._initialized:` construct, else keep self._backend.
Constructed(init, obj) == IF init THEN obj ELSE obj + 1

\* _ensure_initialized went through.
EnsureInitialized ==
    /\ initialized' = TRUE
    /\ backend_obj' = Constructed(initialized, backend_obj)

\* ------------------------------------------------------- MemoryCache
Entry(k, v, e, la) == [key |-> k, value |-> v, expiry |-> e, last_access |-> la]
Has(c, k) == \E i \in 1..Len(c) : c[i].key = k
Pos(c, k) == CHOOSE i \in 1..Len(c) : c[i].key = k
Lookup(c, k) == c[Pos(c, k)]
\* A removal that empties the map.
RemoveAll(c, k) == <<>>

\* del self.cache[key]
Remove(c, k) == SelectSeq(c, LAMBDA e : e.key # k)
Put(c, ent) == IF Has(c, ent.key) THEN [c EXCEPT ![Pos(c, ent.key)] = ent]
               ELSE Append(c, ent)

\* Eviction in insertion order instead of access order.
OldestKeyFifo(c) == c[1].key

\* min(self.cache.items(), key=last_access): the first minimum in dict order.
OldestKey(c) ==
    LET i == CHOOSE i \in 1..Len(c) :
                 /\ \A j \in 1..Len(c) : c[j].last_access >= c[i].last_access
                 /\ \A j \in 1..(i - 1) : c[j].last_access > c[i].last_access
    IN  c[i].key

\* An eviction that takes an expired entry when there is one.
EvictExpiredFirst(c) ==
    IF c = <<>> THEN c
    ELSE IF \E i \in 1..Len(c) : Truthy(c[i].expiry) /\ now > c[i].expiry
    THEN Remove(c, c[CHOOSE i \in 1..Len(c) :
                        Truthy(c[i].expiry) /\ now > c[i].expiry].key)
    ELSE Remove(c, OldestKey(c))

\* _evict_lru: nothing on an empty map, else the entry min() yields.
EvictLru(c) == IF c = <<>> THEN c ELSE Remove(c, OldestKey(c))

\* What _evict_lru logged on the way from c to c1: the entry that is gone,
\* with its position in c.
Evicted(c, c1) ==
    IF \E i \in 1..Len(c) : ~Has(c1, c[i].key)
    THEN LET i == CHOOSE i \in 1..Len(c) : ~Has(c1, c[i].key)
         IN  [key |-> c[i].key, last_access |-> c[i].last_access, pos |-> i,
              expiry |-> c[i].expiry]
    ELSE NoEvicted

\* A capacity check that lets the map grow one past max_size.
NeedsEvictOffByOne(c, k) == Truthy(max_size) /\ Len(c) > max_size /\ ~Has(c, k)

NeedsEvict(c, k) == Truthy(max_size) /\ Len(c) >= max_size /\ ~Has(c, k)

\* An expiry check that is one tick late.
ExpiredOffByOne(e) == Truthy(e) /\ now > e + 1

Expired(e) == Truthy(e) /\ now > e

ExpiryFor(ttl) == IF Truthy(ttl) THEN now + ttl ELSE NoneT

MemView(k) ==
    IF Has(cache, k)
    THEN [present |-> TRUE, value |-> Lookup(cache, k).value,
          expired |-> Truthy(Lookup(cache, k).expiry) /\ now > Lookup(cache, k).expiry]
    ELSE NoSeen

\* A caller that finds the lock held waits for it; no holder ever releases
\* a lock it holds across a suspension (the only such holder is a get that
\* is itself waiting for that lock), so the wait does not end.
MemBlocked(t) ==
    /\ mlock # 0
    /\ task' = [task EXCEPT ![t].pc = "blocked"]
    /\ UNCHANGED <<cache, mlock, rt>>

MemGet(t) ==
    /\ CanRun(t)
    /\ Construct(backend) = "memory"
    /\ task[t].pc = "backend" /\ task[t].bop = "get"
    /\ EnsureInitialized
    /\ \/ MemBlocked(t)
       \/ /\ mlock = 0
          /\ LET k == task[t].key
                 tk == [task[t] EXCEPT !.seen = MemView(k), !.rtv = rt[k]]
             IN  IF ~Has(cache, k)
                 THEN /\ task' = [task EXCEPT ![t] =
                              [tk EXCEPT !.bres = Res("value", NoneV), !.pc = "mgr_ret"]]
                      /\ UNCHANGED <<cache, mlock, rt>>
                 ELSE IF Expired(Lookup(cache, k).expiry)
                 THEN \* await self.delete(key) while holding self.lock
                      /\ mlock' = t
                      /\ task' = [task EXCEPT ![t] =
                              [tk EXCEPT !.pc = "blocked"]]
                      /\ UNCHANGED <<cache, rt>>
                 ELSE /\ cache' = Put(cache, [Lookup(cache, k) EXCEPT !.last_access = now])
                      /\ task' = [task EXCEPT ![t] =
                              [tk EXCEPT !.bres = Res("value", Lookup(cache, k).value),
                                         !.pc = "mgr_ret"]]
                      /\ UNCHANGED <<mlock, rt>>
    /\ UNCHANGED <<now, settingsVars, compression, diskVars>>

MemSet(t) ==
    /\ CanRun(t)
    /\ Construct(backend) = "memory"
    /\ task[t].pc = "backend" /\ task[t].bop = "set"
    /\ EnsureInitialized
    /\ \/ MemBlocked(t)
       \/ /\ mlock = 0
          /\ LET k == task[t].key
                 c1 == IF NeedsEvict(cache, k) THEN EvictLru(cache) ELSE cache
                 ent == Entry(k, task[t].val, ExpiryFor(task[t].bttl), now)
             IN  /\ cache' = Put(c1, ent)
                 /\ rt' = [x \in Keys |->
                             IF x = k
                             THEN Stored(ent.value, ent.expiry, task[t].op)
                             ELSE IF Has(cache', x) THEN rt[x] ELSE NoRt]
                 /\ task' = [task EXCEPT ![t].bres = Res("value", NoneV),
                                         ![t].ev = Evicted(cache, c1),
                                         ![t].pc = "mgr_ret"]
                 /\ UNCHANGED mlock
    /\ UNCHANGED <<now, settingsVars, compression, diskVars>>

MemDelete(t) ==
    /\ CanRun(t)
    /\ Construct(backend) = "memory"
    /\ task[t].pc = "backend" /\ task[t].bop = "delete"
    /\ EnsureInitialized
    /\ \/ MemBlocked(t)
       \/ /\ mlock = 0
          /\ cache' = Remove(cache, task[t].key)
          /\ rt' = [rt EXCEPT ![task[t].key] = NoRt]
          /\ task' = [task EXCEPT ![t].bres = Res("value", NoneV),
                                  ![t].pc = "mgr_ret"]
          /\ UNCHANGED mlock
    /\ UNCHANGED <<now, settingsVars, compression, diskVars>>

MemClear(t) ==
    /\ CanRun(t)
    /\ Construct(backend) = "memory"
    /\ task[t].pc = "backend" /\ task[t].bop = "clear"
    /\ EnsureInitialized
    /\ \/ MemBlocked(t)
       \/ /\ mlock = 0
          /\ cache' = <<>>
          /\ rt' = [x \in Keys |-> NoRt]
          /\ task' = [task EXCEPT ![t].bres = Res("value", NoneV),
                                  ![t].seen = MemView(task[t].key),
                                  ![t].pc = "mgr_ret"]
          /\ UNCHANGED mlock
    /\ UNCHANGED <<now, settingsVars, compression, diskVars>>

\* --------------------------------------------------------- DiskCache
\* hashlib.md5(key.encode()).hexdigest() of the keys of the model.
Md5(k) == CASE k = "k1" -> <<"b6", "b637b17af08aced8850c18cccde915da">>
            [] k = "k2" -> <<"61", "61620957a1443c946a143cf99a7d24fa">>
            [] k = "k3" -> <<"f7", "f7ab469d1dc79166fc874dadcc0dd854">>

\* <base>/<first two hex characters>/<digest>.cache
KeyToPath(k) == <<Md5(k)[1], Md5(k)[2], "cache">>
\* A set that writes in place.
TempPathInPlace(p) == p

\* path.with_suffix('.tmp')
TempPath(p) == <<p[1], p[2], "tmp">>
Paths == {KeyToPath(k) : k \in Keys}
TempPaths == {TempPath(p) : p \in Paths}
AllPaths == Paths \cup TempPaths

NoFile == [exists |-> FALSE, complete |-> FALSE, fmt |-> "-", record |-> FALSE,
           value |-> NoneV, expiry |-> NoneT]

Fmt(c) == IF c THEN "zlib" ELSE "pickle"

\* A serializer that loses the payload.
SerializeLossy(d, c) == [exists |-> TRUE, complete |-> TRUE, fmt |-> Fmt(c),
                        record |-> TRUE, value |-> NoneV, expiry |-> d.expiry]

\* pickle.dump(data, f) / f.write(zlib.compress(pickle.dumps(data))): data is
\* the envelope {"value", "expiry", "created"}, a dict.
Serialize(d, c) == [exists |-> TRUE, complete |-> TRUE, fmt |-> Fmt(c),
                    record |-> TRUE, value |-> d.value, expiry |-> d.expiry]

\* A file at a cache path that holds a complete pickle of something that is
\* not a dict (a list, a string, None), in the format c.
Foreign(c) == [exists |-> TRUE, complete |-> TRUE, fmt |-> Fmt(c),
               record |-> FALSE, value |-> NoneV, expiry |-> NoneT]

\* data.get("expiry") on what was loaded from f: a dict has get, anything
\* else raises AttributeError.
DataGet(f) == IF f.record THEN "ok" ELSE "AttributeError"

\* open(temp_path, "wb") before anything is written: an empty file.
Truncated(c) == [NoFile EXCEPT !.exists = TRUE, !.fmt = Fmt(c)]

\* pickle.load(f) / pickle.loads(zlib.decompress(f.read())): a file that is
\* cut short or was written in the other format raises EOFError,
\* PickleError or zlib.error.
Deserialize(f, c) ==
    IF f.complete /\ f.fmt = Fmt(c)
    THEN [ok |-> TRUE, data |-> [value |-> f.value, expiry |-> f.expiry]]
    ELSE [ok |-> FALSE, data |-> NoData]

HasLock(p) == \E i \in 1..Len(file_locks) : file_locks[i].path = p
LockPos(p) == CHOOSE i \in 1..Len(file_locks) : file_locks[i].path = p
Holder(p) == file_locks[LockPos(p)].holder

\* _get_file_lock: the table after the lookup-or-create.
WithLock(p) == IF HasLock(p) THEN file_locks
               ELSE Append(file_locks, [path |-> p, holder |-> 0])

\* A lock whose acquire and release do nothing.
SetHolderNoop(tbl, p, h) == tbl

\* lock.acquire() / lock.release() on the lock of path p in table tbl.
SetHolder(tbl, p, h) ==
    [i \in 1..Len(tbl) |-> IF tbl[i].path = p THEN [tbl[i] EXCEPT !.holder = h]
                           ELSE tbl[i]]

DiskView(k) ==
    LET f == fs[KeyToPath(k)]
        d == Deserialize(f, compression)
    IN  IF f.exists /\ d.ok /\ DataGet(f) = "ok"
        THEN [present |-> TRUE, value |-> d.data.value,
              expired |-> Truthy(d.data.expiry) /\ now > d.data.expiry]
        ELSE NoSeen

\* subdir.mkdir(exist_ok=True) in _key_to_path raised OSError: the call is
\* outside every try block of get, set and delete.
DiskPathFails(t) ==
    /\ task' = [task EXCEPT ![t].bres = Res("raise", "OSError"),
                            ![t].iofail = TRUE,
                            ![t].pc = "mgr_ret"]
    /\ UNCHANGED <<diskVars, rt>>

\* The caller has to wait for global_lock (held by a clear that is itself
\* waiting) or for the path's lock (held by a get that is itself waiting).
DiskBlocked(t) ==
    LET p == KeyToPath(task[t].key)
    IN  /\ \/ global_lock # 0
           \/ global_lock = 0 /\ HasLock(p) /\ Holder(p) # 0
        /\ task' = [task EXCEPT ![t].pc = "blocked"]
        /\ UNCHANGED <<diskVars, rt>>

\* An entry that does not look at the lock of the path.
DiskCanEnterUnlocked(t) == global_lock = 0

\* _get_file_lock and `async with file_lock` go through without suspending.
DiskCanEnter(t) ==
    LET p == KeyToPath(task[t].key)
    IN  global_lock = 0 /\ (HasLock(p) => Holder(p) = 0)

DiskGet(t) ==
    /\ CanRun(t)
    /\ Construct(backend) = "disk"
    /\ task[t].pc = "backend" /\ task[t].bop = "get"
    /\ EnsureInitialized
    /\ \/ DiskPathFails(t)
       \/ DiskBlocked(t)
       \/ /\ DiskCanEnter(t)
          /\ LET k == task[t].key
                 p == KeyToPath(k)
                 f == fs[p]
                 d == Deserialize(f, compression)
                 tk == [task[t] EXCEPT !.seen = DiskView(k), !.rtv = rt[k]]
                 miss == [tk EXCEPT !.bres = Res("value", NoneV), !.pc = "mgr_ret"]
             IN  IF ~f.exists
                 THEN /\ task' = [task EXCEPT ![t] = miss]
                      /\ file_locks' = WithLock(p)
                      /\ UNCHANGED <<fs, global_lock, rt>>
                 ELSE \/ \* open(path, "rb") raised OSError: caught, None
                         /\ task' = [task EXCEPT ![t].bres = Res("value", NoneV),
                                                 ![t].iofail = TRUE,
                                                 ![t].pc = "mgr_ret"]
                         /\ file_locks' = WithLock(p)
                         /\ UNCHANGED <<fs, global_lock, rt>>
                      \/ /\ ~d.ok
                         /\ task' = [task EXCEPT ![t] = miss]
                         /\ file_locks' = WithLock(p)
                         /\ UNCHANGED <<fs, global_lock, rt>>
                      \/ \* data.get raised: neither FileNotFoundError nor
                         \* OSError, so it leaves get; the lock is released
                         /\ d.ok /\ DataGet(f) # "ok"
                         /\ task' = [task EXCEPT ![t] =
                                 [tk EXCEPT !.bres = Res("raise", DataGet(f)),
                                            !.pc = "mgr_ret"]]
                         /\ file_locks' = WithLock(p)
                         /\ UNCHANGED <<fs, global_lock, rt>>
                      \/ /\ d.ok /\ DataGet(f) = "ok" /\ Expired(d.data.expiry)
                         /\ \/ \* await self.delete(key): _key_to_path raised
                               \* OSError, caught by get's own handler
                               /\ task' = [task EXCEPT ![t] =
                                       [miss EXCEPT !.iofail = TRUE]]
                               /\ file_locks' = WithLock(p)
                            \/ \* await self.delete(key) while holding file_lock
                               /\ task' = [task EXCEPT ![t] =
                                       [tk EXCEPT !.pc = "blocked"]]
                               /\ file_locks' = SetHolder(WithLock(p), p, t)
                         /\ UNCHANGED <<fs, global_lock, rt>>
                      \/ /\ d.ok /\ DataGet(f) = "ok" /\ ~Expired(d.data.expiry)
                         /\ task' = [task EXCEPT ![t] =
                                 [tk EXCEPT !.bres = Res("value", d.data.value),
                                            !.pc = "mgr_ret"]]
                         /\ file_locks' = WithLock(p)
                         /\ UNCHANGED <<fs, global_lock, rt>>
    /\ UNCHANGED <<now, settingsVars, compression, memVars>>

\* DiskCache.set up to `async with file_lock`: path, lock, envelope.
DiskSetBegin(t) ==
    /\ CanRun(t)
    /\ Construct(backend) = "disk"
    /\ task[t].pc = "backend" /\ task[t].bop = "set"
    /\ EnsureInitialized
    /\ \/ DiskPathFails(t)
       \/ DiskBlocked(t)
       \/ /\ DiskCanEnter(t)
          /\ LET p == KeyToPath(task[t].key)
             IN  /\ file_locks' = SetHolder(WithLock(p), p, t)
                 /\ task' = [task EXCEPT
                        ![t].data = [value |-> task[t].val,
                                     expiry |-> ExpiryFor(task[t].bttl)],
                        ![t].pc = "io_mkdir"]
                 /\ UNCHANGED <<fs, global_lock, rt>>
    /\ UNCHANGED <<now, settingsVars, compression, memVars>>

\* A section that is left with its lock still held.
ReleaseKeeps(t) == file_locks

\* Leaving `async with file_lock` in set.
Release(t) == SetHolder(file_locks, KeyToPath(task[t].key), 0)

\* except (OSError, pickle.PickleError): if temp_path.exists(): unlink,
\* where the unlink may itself raise OSError, which is passed over.
SetHandler(t, unlinkOk) ==
    LET q == TempPath(KeyToPath(task[t].key))
    IN  /\ fs' = IF fs[q].exists /\ unlinkOk
                 THEN [fs EXCEPT ![q] = NoFile] ELSE fs
        /\ file_locks' = Release(t)
        /\ task' = [task EXCEPT ![t].bres = Res("value", NoneV),
                                ![t].iofail = TRUE,
                                ![t].pc = "mgr_ret"]
        /\ UNCHANGED <<global_lock, rt>>

\* path.parent.mkdir(parents=True, exist_ok=True)
DiskSetMkdir(t) ==
    /\ CanRun(t)
    /\ task[t].pc = "io_mkdir"
    /\ \/ /\ task' = [task EXCEPT ![t].pc = "io_open"]
          /\ UNCHANGED <<diskVars, rt>>
       \/ \* OSError: the handler reads temp_path before it was assigned
          /\ file_locks' = Release(t)
          /\ task' = [task EXCEPT ![t].bres = Res("raise", "UnboundLocalError"),
                                  ![t].iofail = TRUE,
                                  ![t].pc = "mgr_ret"]
          /\ UNCHANGED <<fs, global_lock, rt>>
    /\ UNCHANGED <<now, settingsVars, compression, initialized, backend_obj, memVars>>

\* open(temp_path, "wb")
DiskSetOpen(t) ==
    /\ CanRun(t)
    /\ task[t].pc = "io_open"
    /\ \/ /\ fs' = [fs EXCEPT ![TempPath(KeyToPath(task[t].key))] =
                       Truncated(compression)]
          /\ task' = [task EXCEPT ![t].pc = "io_write"]
          /\ UNCHANGED <<file_locks, global_lock, rt>>
       \/ \E unlinkOk \in BOOLEAN : SetHandler(t, unlinkOk)
    /\ UNCHANGED <<now, settingsVars, compression, initialized, backend_obj, memVars>>

\* pickle.dump(data, f) and the close of the file
DiskSetWrite(t) ==
    /\ CanRun(t)
    /\ task[t].pc = "io_write"
    /\ \/ /\ fs' = [fs EXCEPT ![TempPath(KeyToPath(task[t].key))] =
                       Serialize(task[t].data, compression)]
          /\ task' = [task EXCEPT ![t].pc = "io_replace"]
          /\ UNCHANGED <<file_locks, global_lock, rt>>
       \/ \E unlinkOk \in BOOLEAN : SetHandler(t, unlinkOk)
       \/ \* pickle rejects the value with TypeError or AttributeError (a
          \* generator, a lock, a local function): neither is an OSError
          \* or a PickleError, so the handler is skipped and the empty
          \* temporary file stays
          /\ file_locks' = Release(t)
          /\ task' = [task EXCEPT ![t].bres = Res("raise", "TypeError"),
                                  ![t].iofail = TRUE,
                                  ![t].pc = "mgr_ret"]
          /\ UNCHANGED <<fs, global_lock, rt>>
    /\ UNCHANGED <<now, settingsVars, compression, initialized, backend_obj, memVars>>

\* os.replace(src, dst) on the tree f.
Replace(f, src, dst) ==
    IF src = dst THEN f
    ELSE [q \in AllPaths |-> IF q = dst THEN f[src]
                             ELSE IF q = src THEN NoFile ELSE f[q]]

\* os.replace(temp_path, path)
DiskSetReplace(t) ==
    /\ CanRun(t)
    /\ task[t].pc = "io_replace"
    /\ \/ LET k == task[t].key
              p == KeyToPath(k)
          IN  /\ fs' = Replace(fs, TempPath(p), p)
              /\ file_locks' = Release(t)
              /\ rt' = [rt EXCEPT ![k] = Stored(task[t].data.value,
                                                 task[t].data.expiry, task[t].op)]
              /\ task' = [task EXCEPT ![t].bres = Res("value", NoneV),
                                      ![t].pc = "mgr_ret"]
              /\ UNCHANGED global_lock
       \/ \E unlinkOk \in BOOLEAN : SetHandler(t, unlinkOk)
    /\ UNCHANGED <<now, settingsVars, compression, initialized, backend_obj, memVars>>

\* An unlink that leaves the file where it is.
UnlinkKeeps(f, p) == f

\* path.unlink() on the tree f.
Unlink(f, p) == [f EXCEPT ![p] = NoFile]

DiskDelete(t) ==
    /\ CanRun(t)
    /\ Construct(backend) = "disk"
    /\ task[t].pc = "backend" /\ task[t].bop = "delete"
    /\ EnsureInitialized
    /\ \/ DiskPathFails(t)
       \/ DiskBlocked(t)
       \/ /\ DiskCanEnter(t)
          /\ LET k == task[t].key
                 p == KeyToPath(k)
             IN  /\ file_locks' = WithLock(p)
                 /\ \/ /\ fs' = Unlink(fs, p)
                       /\ rt' = [rt EXCEPT ![k] = NoRt]
                       /\ task' = [task EXCEPT ![t].bres = Res("value", NoneV),
                                               ![t].pc = "mgr_ret"]
                    \/ \* path.unlink() raised OSError: logged
                       /\ fs[p].exists
                       /\ task' = [task EXCEPT ![t].bres = Res("value", NoneV),
                                               ![t].iofail = TRUE,
                                               ![t].pc = "mgr_ret"]
                       /\ UNCHANGED <<fs, rt>>
                 /\ UNCHANGED global_lock
    /\ UNCHANGED <<now, settingsVars, compression, memVars>>

\* A clear that keeps the lock table.
DropLocksKeeps(tbl) == tbl

\* self.file_locks.clear()
DropLocks(tbl) == <<>>

\* A clear that does not wait for the locks of the table.
AllLocksFreeUnchecked(tbl) == TRUE

\* `for lock in all_locks: await lock.acquire()` goes through without
\* suspending: no lock of the table is held.
AllLocksFree(tbl) == \A i \in 1..Len(tbl) : tbl[i].holder = 0

\* DiskCache.clear: global_lock, every lock of the table, rmtree, mkdir.
DiskClear(t) ==
    /\ CanRun(t)
    /\ Construct(backend) = "disk"
    /\ task[t].pc = "backend" /\ task[t].bop = "clear"
    /\ EnsureInitialized
    /\ \/ /\ global_lock # 0
          /\ task' = [task EXCEPT ![t].pc = "blocked"]
          /\ UNCHANGED <<diskVars, rt>>
       \/ \* a lock of the table is held: clear waits for it, keeping
          \* global_lock and the locks it acquired before it
          /\ global_lock = 0
          /\ \E i \in 1..Len(file_locks) :
                /\ file_locks[i].holder # 0
                /\ \A j \in 1..(i - 1) : file_locks[j].holder = 0
                /\ file_locks' = [j \in 1..Len(file_locks) |->
                                    IF j < i THEN [file_locks[j] EXCEPT !.holder = t]
                                    ELSE file_locks[j]]
          /\ global_lock' = t
          /\ task' = [task EXCEPT ![t].pc = "blocked"]
          /\ UNCHANGED <<fs, rt>>
       \/ /\ global_lock = 0
          /\ AllLocksFree(file_locks)
          /\ \/ /\ fs' = [q \in AllPaths |-> NoFile]
                /\ rt' = [x \in Keys |-> NoRt]
                /\ task' = [task EXCEPT ![t].bres = Res("value", NoneV),
                                        ![t].seen = DiskView(task[t].key),
                                        ![t].pc = "mgr_ret"]
             \/ \* shutil.rmtree raised OSError part of the way: logged
                /\ \E gone \in SUBSET dom.keys :
                      /\ gone # dom.keys
                      /\ fs' = [q \in AllPaths |->
                                  IF \E x \in gone : q \in {KeyToPath(x), TempPath(KeyToPath(x))}
                                  THEN NoFile ELSE fs[q]]
                      /\ rt' = [x \in Keys |-> IF x \in gone THEN NoRt ELSE rt[x]]
                /\ task' = [task EXCEPT ![t].bres = Res("value", NoneV),
                                        ![t].iofail = TRUE,
                                        ![t].pc = "mgr_ret"]
          /\ file_locks' = DropLocks(file_locks)
          /\ UNCHANGED global_lock
    /\ UNCHANGED <<now, settingsVars, compression, memVars>>

\* The key whose file is p.
KeyOf(p) == CHOOSE k \in Keys : KeyToPath(k) = p

\* The orders in which iterdir() and glob("*.cache") may yield the files S.
WalkOrders(S) ==
    {w \in [1..Cardinality(S) -> S] :
        \A i, j \in 1..Cardinality(S) : i # j => w[i] # w[j]}

\* The lock table after _get_file_lock on the first n paths of the walk w.
RECURSIVE LocksAfterWalk(_, _)
LocksAfterWalk(w, n) ==
    IF n = 0 THEN file_locks
    ELSE LET tbl == LocksAfterWalk(w, n - 1)
         IN  IF \E i \in 1..Len(tbl) : tbl[i].path = w[n] THEN tbl
             ELSE Append(tbl, [path |-> w[n], holder |-> 0])

\* cleanup_expired unlinks a file that does not deserialize or whose
\* expiry has passed.
Stale(f) ==
    LET d == Deserialize(f, compression)
    IN  ~d.ok \/ Expired(d.data.expiry)

\* DiskCache.cleanup_expired: walk the *.cache files, each under its lock.
\* A file whose open or unlink raises OSError is passed over.  The walk
\* stops for good at the first file whose lock is held, or at its first
\* file when global_lock is held; it is left by the AttributeError of
\* data.get at the first file that does not hold a dict.
DiskCleanup(t) ==
    /\ CanRun(t)
    /\ Construct(backend) = "disk"
    /\ task[t].pc = "backend" /\ task[t].bop = "cleanup"
    /\ LET found == {p \in Paths : fs[p].exists}
       IN  \/ /\ found # {} /\ global_lock # 0
              /\ task' = [task EXCEPT ![t].pc = "blocked"]
              /\ UNCHANGED <<diskVars, rt>>
           \/ /\ found = {} \/ global_lock = 0
              /\ \E w \in WalkOrders(found), failed \in SUBSET found :
                    LET held == {i \in 1..Len(w) : HasLock(w[i]) /\ Holder(w[i]) # 0}
                        alien == {i \in 1..Len(w) :
                                     /\ w[i] \notin failed
                                     /\ Deserialize(fs[w[i]], compression).ok
                                     /\ DataGet(fs[w[i]]) # "ok"}
                        stops == held \cup alien
                        first == IF stops = {} THEN Len(w) + 1
                                 ELSE CHOOSE i \in stops : \A j \in stops : i <= j
                        n == first - 1
                        gone == {w[i] : i \in {j \in 1..n :
                                     w[j] \notin failed /\ Stale(fs[w[j]])}}
                    IN  /\ \A i \in (n + 1)..Len(w) : w[i] \notin failed
                        /\ fs' = [q \in AllPaths |-> IF q \in gone THEN NoFile ELSE fs[q]]
                        /\ rt' = [x \in Keys |->
                                    IF KeyToPath(x) \in gone THEN NoRt ELSE rt[x]]
                        /\ file_locks' = LocksAfterWalk(w, IF first \in held THEN n
                                                            ELSE IF first \in alien THEN first
                                                            ELSE n)
                        /\ task' = [task EXCEPT
                               ![t].count = Cardinality(gone),
                               ![t].iofail = (failed # {}),
                               ![t].ret = IF stops = {} THEN Res("count", NoneV)
                                          ELSE IF first \in held THEN NoRes
                                          ELSE Res("raise", DataGet(fs[w[first]])),
                               ![t].pc = IF first \in held THEN "blocked" ELSE "done"]
              /\ UNCHANGED global_lock
    /\ UNCHANGED <<now, settingsVars, compression, initialized, backend_obj, memVars>>

\* ------------------------------------------------------ CacheManager
\* An emitter that delivers the latest notification ahead of the earlier ones.
EmitFront(tk, ty, op) ==
    [tk EXCEPT !.trace = <<Event(ty, op, IF tk.op = "clear" THEN "-" ELSE tk.key)>> \o @]

\* await events.emit(type, data): the notification is delivered before the
\* caller goes on.
Emit(tk, ty, op) ==
    [tk EXCEPT !.trace = Append(@, Event(ty, op, IF tk.op = "clear" THEN "-" ELSE tk.key))]

\* An orchestrator that lets backend exceptions through.
SwallowNothing(r) == r

\* `except Exception` in get, set, delete and clear: what the orchestrator
\* hands back for what the backend did.
Swallow(r) == IF r.kind = "raise" THEN Res("value", NoneV) ELSE r

\* _ensure_initialized raises: RuntimeError for a kind whose backend cannot
\* be constructed, OSError when DiskCache.__init__ cannot create
\* base_directory.  The call is outside the try blocks of get, set, delete
\* and clear, and cache_manager.get is outside the try block of the bridge:
\* the exception reaches the caller and nothing is emitted.
MgrInitFail(t) ==
    /\ CanRun(t)
    /\ task[t].pc = "backend" /\ task[t].bop # "cleanup"
    /\ ~initialized
    /\ \E e \in ConstructErrors :
          /\ \/ e = "RuntimeError" /\ Construct(backend) = "RuntimeError"
             \/ e = "OSError(base_directory)" /\ Construct(backend) = "disk"
          /\ task' = [task EXCEPT ![t].ret = Res("raise", e), ![t].pc = "done"]
    /\ UNCHANGED <<now, settingsVars, compression, initialized, backend_obj, memVars, diskVars, rt>>

\* A test that takes whatever get returned for a cached value.
IsHitAlways(v) == TRUE

\* `if value is not None` in CacheManager.get, `if cached_value is not None`
\* in the bridge.
IsHit(v) == v # NoneV

\* CacheManager.get after `await self._backend.get(key)`, and the bridge's
\* `if cached_value is not None`.
MgrGetReturn(t) ==
    /\ CanRun(t)
    /\ task[t].pc = "mgr_ret" /\ task[t].bop = "get"
    /\ LET r == task[t].bres
           out == Swallow(r)
           tk == IF r.kind = "raise" THEN Emit(task[t], "cache_error", "none")
                 ELSE IF IsHit(r.v) THEN Emit(task[t], "cache_hit", "none")
                 ELSE Emit(task[t], "cache_miss", "none")
       IN  task' = [task EXCEPT ![t] =
               IF task[t].op = "call" /\ out.kind = "value" /\ ~IsHit(out.v)
               THEN [tk EXCEPT !.pc = "work"]
               ELSE [tk EXCEPT !.ret = out, !.pc = "done"]]
    /\ UNCHANGED <<now, settingsVars, compression, initialized, backend_obj, memVars, diskVars, rt>>

\* A bridge that hides the failure of the work.
BridgeRaiseHidden(tk, e) == [tk EXCEPT !.ret = Res("value", NoneV), !.pc = "done"]

\* The bridge's `except Exception` around the work and the set.
BridgeRaise(tk, e) ==
    [Emit(tk, "function_error", "none") EXCEPT !.ret = Res("raise", e), !.pc = "done"]

\* CacheManager.set after `await self._backend.set(...)`.
MgrSetReturn(t) ==
    /\ CanRun(t)
    /\ task[t].pc = "mgr_ret" /\ task[t].bop = "set"
    /\ LET r == task[t].bres
           out == Swallow(r)
           tk == IF r.kind = "raise" THEN Emit(task[t], "cache_error", "set")
                 ELSE Emit(task[t], "cache_set", "none")
       IN  task' = [task EXCEPT ![t] =
               IF out.kind = "raise"
               THEN (IF task[t].op = "call" THEN BridgeRaise(tk, out.v)
                     ELSE [tk EXCEPT !.ret = out, !.pc = "done"])
               ELSE IF task[t].op = "call"
               THEN [tk EXCEPT !.ret = Res("value", task[t].val), !.pc = "done"]
               ELSE [tk EXCEPT !.ret = Res("value", NoneV), !.pc = "done"]]
    /\ UNCHANGED <<now, settingsVars, compression, initialized, backend_obj, memVars, diskVars, rt>>

\* CacheManager.delete after `await self._backend.delete(key)`.
MgrDeleteReturn(t) ==
    /\ CanRun(t)
    /\ task[t].pc = "mgr_ret" /\ task[t].bop = "delete"
    /\ LET r == task[t].bres
           tk == IF r.kind = "raise" THEN Emit(task[t], "cache_error", "delete")
                 ELSE Emit(task[t], "cache_delete", "none")
       IN  task' = [task EXCEPT ![t] = [tk EXCEPT !.ret = Swallow(r), !.pc = "done"]]
    /\ UNCHANGED <<now, settingsVars, compression, initialized, backend_obj, memVars, diskVars, rt>>

\* CacheManager.clear after `await self._backend.clear()`.
MgrClearReturn(t) ==
    /\ CanRun(t)
    /\ task[t].pc = "mgr_ret" /\ task[t].bop = "clear"
    /\ LET r == task[t].bres
           tk == IF r.kind = "raise" THEN Emit(task[t], "cache_error", "clear")
                 ELSE Emit(task[t], "cache_clear", "none")
       IN  task' = [task EXCEPT ![t] = [tk EXCEPT !.ret = Swallow(r), !.pc = "done"]]
    /\ UNCHANGED <<now, settingsVars, compression, initialized, backend_obj, memVars, diskVars, rt>>

\* ------------------------------------------------------- the callers
\* A caller enters the orchestrator or the bridge.
Begin(t, op, k, v, ttl, d) ==
    [IdleTask EXCEPT !.pc = "backend", !.op = op,
                     !.bop = IF op = "call" THEN "get"
                             ELSE IF op = "cache_delete" THEN "delete" ELSE op,
                     !.key = k, !.val = v,
                     !.ttl = ttl,
                     !.bttl = PyOr(ttl, settings_ttl),
                     !.deferred = d]

\* What loop.run_until_complete raises on a loop that is running.
LoopError == "RuntimeError(loop running)"

\* sync_wrapper: inside a running loop nest_asyncio.apply() makes the loop
\* re-entrant; when the import fails a warning is logged and
\* loop.run_until_complete is called on the running loop all the same.
SyncWrapper(running, nest) == IF running /\ ~nest THEN LoopError ELSE "run"

\* wrapper(*args): _wrapped_func -> _get_cached_value, up to cache_manager.get.
\* A function that is not a coroutine function goes through sync_wrapper.
\* The backend, compression and serializer arguments of retain are passed
\* to _wrapped_func, which does not read them.
StartCall(t) ==
    /\ CanRun(t)
    /\ task[t].pc = "idle" /\ t \in dom.callers
    /\ \E k \in dom.keys, ttl \in dom.ttls, d \in BOOLEAN,
          o \in dom.overrides, r \in dom.running :
          LET tk == [Begin(t, "call", k, NoneV, ttl, d) EXCEPT !.obackend = o]
          IN  task' = [task EXCEPT ![t] =
                  IF ~d /\ SyncWrapper(r, dom.nest) # "run"
                  THEN [tk EXCEPT !.ret = Res("raise", SyncWrapper(r, dom.nest)),
                                  !.pc = "done"]
                  ELSE tk]
    /\ UNCHANGED <<now, settingsVars, compression, initialized, backend_obj, memVars, diskVars, rt>>

StartGet(t) ==
    /\ CanRun(t)
    /\ task[t].pc = "idle" /\ t \in dom.callers
    /\ \E k \in dom.keys :
          task' = [task EXCEPT ![t] = Begin(t, "get", k, NoneV, NoneT, FALSE)]
    /\ UNCHANGED <<now, settingsVars, compression, initialized, backend_obj, memVars, diskVars, rt>>

StartSet(t) ==
    /\ CanRun(t)
    /\ task[t].pc = "idle" /\ t \in dom.callers
    /\ \E k \in dom.keys, v \in dom.values, ttl \in dom.ttls :
          task' = [task EXCEPT ![t] = Begin(t, "set", k, v, ttl, FALSE)]
    /\ UNCHANGED <<now, settingsVars, compression, initialized, backend_obj, memVars, diskVars, rt>>

\* cache_manager.delete(key), also reached through wrapper.cache_delete
StartDelete(t) ==
    /\ CanRun(t)
    /\ task[t].pc = "idle" /\ t \in dom.callers
    /\ \E k \in dom.keys :
          task' = [task EXCEPT ![t] = Begin(t, "delete", k, NoneV, NoneT, FALSE)]
    /\ UNCHANGED <<now, settingsVars, compression, initialized, backend_obj, memVars, diskVars, rt>>

\* wrapper.cache_delete(*args): a lambda that builds the key of f(*args)
\* and calls cache_manager.delete with it.  delete is a coroutine function:
\* the call returns a coroutine object and nothing of delete has run.  The
\* caller either awaits the object or, as a plain call does, drops it.
CacheDelete(t) ==
    /\ CanRun(t)
    /\ task[t].pc = "idle" /\ t \in dom.callers
    /\ \E k \in dom.keys, awaited \in BOOLEAN :
          LET tk == Begin(t, "cache_delete", k, NoneV, NoneT, FALSE)
          IN  task' = [task EXCEPT ![t] =
                  IF awaited THEN tk
                  ELSE [tk EXCEPT !.ret = Res("coroutine", NoneV), !.pc = "done"]]
    /\ UNCHANGED <<now, settingsVars, compression, initialized, backend_obj, memVars, diskVars, rt>>

StartClear(t) ==
    /\ CanRun(t)
    /\ task[t].pc = "idle" /\ t \in dom.callers
    /\ task' = [task EXCEPT ![t] = Begin(t, "clear", "k1", NoneV, NoneT, FALSE)]
    /\ UNCHANGED <<now, settingsVars, compression, initialized, backend_obj, memVars, diskVars, rt>>

\* backend.cleanup_expired() on the backend the orchestrator constructed
StartCleanup(t) ==
    /\ CanRun(t)
    /\ task[t].pc = "idle" /\ t \in dom.callers
    /\ backend = "disk" /\ initialized
    /\ task' = [task EXCEPT ![t] = Begin(t, "cleanup", "k1", NoneV, NoneT, FALSE)]
    /\ UNCHANGED <<now, settingsVars, compression, initialized, backend_obj, memVars, diskVars, rt>>

\* _get_cached_value after a miss: the call-start notification, then the
\* work; deferred work suspends the bridge, immediate work does not.
WorkStart(t) ==
    /\ CanRun(t)
    /\ task[t].pc = "work"
    /\ task' = [task EXCEPT ![t] =
           [Emit(task[t], "function_call_start", "none") EXCEPT
               !.pc = IF task[t].deferred THEN "awaiting" ELSE "executing"]]
    /\ UNCHANGED <<now, settingsVars, compression, initialized, backend_obj, memVars, diskVars, rt>>

\* The work returned v: call-end notification, then cache_manager.set.
WorkReturn(t) ==
    /\ CanRun(t)
    /\ task[t].pc \in {"awaiting", "executing"}
    /\ \E v \in dom.values :
          task' = [task EXCEPT ![t] =
              [Emit(task[t], "function_call_end", "none") EXCEPT
                  !.val = v, !.bop = "set", !.bres = NoRes, !.iofail = FALSE,
                  !.pc = "backend"]]
    /\ UNCHANGED <<now, settingsVars, compression, initialized, backend_obj, memVars, diskVars, rt>>

\* The work raised e.
WorkRaise(t) ==
    /\ CanRun(t)
    /\ task[t].pc \in {"awaiting", "executing"}
    /\ \E e \in WorkErrors :
          task' = [task EXCEPT ![t] = BridgeRaise([task[t] EXCEPT !.val = e], e)]
    /\ UNCHANGED <<now, settingsVars, compression, initialized, backend_obj, memVars, diskVars, rt>>

\* The caller has its result and may call again.
Return(t) ==
    /\ CanRun(t)
    /\ task[t].pc = "done"
    /\ task' = [task EXCEPT ![t] = IdleTask]
    /\ UNCHANGED <<now, settingsVars, compression, initialized, backend_obj, memVars, diskVars, rt>>

\* ------------------------------------------------------ environment
Tick ==
    /\ now < dom.clock
    /\ now' = now + 1
    /\ UNCHANGED <<settingsVars, compression, initialized, backend_obj, memVars, diskVars, rt, task>>

\* The process is killed and started again: every object is constructed
\* anew, the directory tree is what the killed process left.
ProcessRestart ==
    /\ initialized
    /\ initialized' = FALSE
    /\ backend_obj' = 0
    /\ cache' = <<>>
    /\ mlock' = 0
    /\ file_locks' = <<>>
    /\ global_lock' = 0
    /\ rt' = [k \in Keys |-> NoRt]
    /\ task' = [t \in Tasks |-> IdleTask]
    /\ compression' \in dom.formats
    /\ UNCHANGED <<now, settingsVars, fs>>

\* The runs explored: what the settings are and what the callers pass.
Dom(K, V, T, C, F, M) ==
    [keys |-> K, values |-> V, ttls |-> T, callers |-> C, formats |-> F, clock |-> M,
     running |-> {C = Tasks},   \* whether a call is made from a running event loop
     nest |-> TRUE,             \* whether nest_asyncio can be imported
     overrides |-> {NoneV},     \* the backend argument of retain
     foreign |-> {}]            \* cache paths that hold a file the store did not write

\* memory, three keys under a capacity: eviction order
InitLru ==
    /\ backend = "memory"
    /\ max_size \in 1..MaxCap
    /\ settings_ttl = NoneT
    /\ dom = Dom(Keys, {"v1"}, {NoneT}, {1}, {FALSE}, MaxTime)

\* memory, two keys, expiring and never-expiring entries
InitMemory ==
    /\ backend = "memory"
    /\ max_size \in {NoneT, 1}
    /\ settings_ttl \in {NoneT, 1}
    /\ dom = Dom({"k1", "k2"}, Values, {NoneT, 1}, {1}, {FALSE}, MaxTime)

\* disk, one key, expiring and never-expiring entries
InitDisk ==
    /\ backend = "disk"
    /\ max_size = NoneT
    /\ settings_ttl \in {NoneT, 1}
    /\ \E c \in BOOLEAN : dom = Dom({"k1"}, Values, {NoneT, 1}, {1}, {c}, MaxTime)

\* disk, one key, the compression setting changes between two runs
InitDiskFormats ==
    /\ backend = "disk"
    /\ max_size = NoneT
    /\ settings_ttl = NoneT
    /\ dom = Dom({"k1"}, {"v1"}, {NoneT}, {1}, BOOLEAN, 1)

\* disk, two keys
InitDiskKeys ==
    /\ backend = "disk"
    /\ max_size = NoneT
    /\ settings_ttl = NoneT
    /\ dom = Dom({"k1", "k2"}, {"v1"}, {NoneT}, {1}, {FALSE}, 1)

\* two callers on one key, either backend
InitCallers ==
    /\ backend \in {"memory", "disk"}
    /\ max_size = NoneT
    /\ settings_ttl = NoneT
    /\ dom = Dom({"k1"}, Values, {NoneT}, Tasks, {FALSE}, 1)

\* disk, two callers, entries that expire: an entry set at time 1 with
\* ttl 1 has expired at time 3
InitContend ==
    /\ backend = "disk"
    /\ max_size = NoneT
    /\ settings_ttl = NoneT
    /\ dom = Dom({"k1"}, {"v1"}, {1}, Tasks, {FALSE}, 3)

\* a kind whose backend module the package does not ship
InitRemote ==
    /\ backend \in {"redis", "s3", "dynamodb"}
    /\ max_size = NoneT
    /\ settings_ttl = NoneT
    /\ dom = Dom({"k1"}, {"v1"}, {NoneT}, Tasks, {FALSE}, 1)

\* memory by default, a decorator that asks for the disk backend, sync and
\* async functions called inside and outside a running event loop
InitWrapper ==
    /\ backend = "memory"
    /\ max_size = NoneT
    /\ settings_ttl = NoneT
    /\ \E n \in BOOLEAN :
          dom = [Dom({"k1"}, {"v1"}, {NoneT}, {1}, {FALSE}, 1) EXCEPT
                    !.running = BOOLEAN, !.nest = n, !.overrides = {NoneV, "disk"}]

\* disk, one key whose path holds a file that is not an envelope
InitForeign ==
    /\ backend = "disk"
    /\ max_size = NoneT
    /\ settings_ttl = NoneT
    /\ dom = [Dom({"k1"}, {"v1"}, {NoneT}, {1}, BOOLEAN, 1) EXCEPT
                 !.foreign = {KeyToPath("k1")}]

\* either backend, one key, calls that pass ttl 0; the default ttl may be
\* 0 as well (Settings.validate, which rejects it, is called by nobody)
InitZeroTtl ==
    /\ backend \in {"memory", "disk"}
    /\ max_size = NoneT
    /\ settings_ttl \in TTLs
    /\ dom = Dom({"k1"}, {"v1"}, TTLs, {1}, {FALSE}, 1)

\* memory, three keys under a capacity of two, entries that expire: an
\* entry set at time 2 with ttl 1 has expired at time 4
InitLruExpiry ==
    /\ backend = "memory"
    /\ max_size = 2
    /\ settings_ttl = NoneT
    /\ dom = Dom(Keys, {"v1"}, {NoneT, 1}, {1}, {FALSE}, 4)

InitStore ==
    /\ now = 1
    /\ \/ InitLru \/ InitMemory \/ InitDisk \/ InitDiskFormats \/ InitDiskKeys
       \/ InitCallers \/ InitContend \/ InitRemote \/ InitWrapper \/ InitForeign
       \/ InitZeroTtl \/ InitLruExpiry
    /\ compression \in dom.formats
    /\ initialized = FALSE
    /\ backend_obj = 0
    /\ cache = <<>>
    /\ mlock = 0
    /\ \E c \in dom.formats :
          fs = [q \in AllPaths |-> IF q \in dom.foreign THEN Foreign(c) ELSE NoFile]
    /\ file_locks = <<>>
    /\ global_lock = 0
    /\ rt = [k \in Keys |-> NoRt]
    /\ task = [t \in Tasks |-> IdleTask]

\* ------------------------------------------------------ EventEmitter
\* Two of the members of EventType.
EventTypes == {"cache_hit", "cache_miss"}

\* The callables that get registered; h2 raises when it is called.
Handlers == {"h1", "h2"}
HandlerRaises(h) == IF h = "h2" THEN "ValueError" ELSE NoneV

\* EventEmitter.__init__: enabled, no handler of either kind; nothing
\* emitted yet.
NoEmitter ==
    [enabled |-> TRUE,
     defaults |-> [ty \in EventTypes |-> <<>>],
     handlers |-> [ty \in EventTypes |-> <<>>],
     emitted |-> "-", called |-> <<>>, logged |-> <<>>, out |-> NoRes]

InList(l, h) == \E i \in 1..Len(l) : l[i] = h

\* if handler not in list: list.append(handler)
Register(l, h) == IF InList(l, h) THEN l ELSE Append(l, h)

\* if handler in list: list.remove(handler)
Unregister(l, h) == SelectSeq(l, LAMBDA x : x # h)

\* The frame of the emitter's operations: the store is not touched.
EmitterFrame ==
    UNCHANGED <<now, backend, max_size, settings_ttl, dom, compression,
                initialized, backend_obj, memVars, diskVars, rt, task, keyer>>

Subscribe(ty, h) ==
    /\ emitter' = [emitter EXCEPT !.handlers[ty] = Register(@, h)]
    /\ EmitterFrame

Unsubscribe(ty, h) ==
    /\ emitter' = [emitter EXCEPT !.handlers[ty] = Unregister(@, h)]
    /\ EmitterFrame

AddDefaultHandler(ty, h) ==
    /\ emitter' = [emitter EXCEPT !.defaults[ty] = Register(@, h)]
    /\ EmitterFrame

Enable ==
    /\ emitter' = [emitter EXCEPT !.enabled = TRUE]
    /\ EmitterFrame

Disable ==
    /\ emitter' = [emitter EXCEPT !.enabled = FALSE]
    /\ EmitterFrame

\* An emitter that catches nothing.
CaughtNever(e) == FALSE

\* except Exception: ValueError is a subclass of Exception.
Caught(e) == e \in {"ValueError"}

\* self._default_handlers.get(event_type, []) + self._handlers.get(event_type, [])
AllHandlers(ty) == emitter.defaults[ty] \o emitter.handlers[ty]

\* for handler in all_handlers: try: handler(enriched_data) except Exception:
\* logger.error(...).  r is what happened up to handler i.
RECURSIVE CallHandlers(_, _, _)
CallHandlers(hs, i, r) ==
    IF i > Len(hs) THEN r
    ELSE LET e == HandlerRaises(hs[i])
             r1 == [r EXCEPT !.called = Append(@, hs[i])]
         IN  IF e = NoneV THEN CallHandlers(hs, i + 1, r1)
             ELSE IF Caught(e)
             THEN CallHandlers(hs, i + 1, [r1 EXCEPT !.logged = Append(@, e)])
             ELSE [r1 EXCEPT !.out = Res("raise", e)]

\* await events.emit(event_type, data)
EmitEvent(ty) ==
    /\ LET r0 == [called |-> <<>>, logged |-> <<>>, out |-> Res("value", NoneV)]
           r == IF ~emitter.enabled THEN r0
                ELSE CallHandlers(AllHandlers(ty), 1, r0)
       IN  emitter' = [emitter EXCEPT !.emitted = ty, !.called = r.called,
                                      !.logged = r.logged, !.out = r.out]
    /\ EmitterFrame

\* No decorated function whose keys are followed.
NoKeyer == [cfg |-> [key_builder |-> NoneV, key_prefix |-> NoneV, exclude |-> {}],
            calls |-> <<>>, keys |-> <<>>]

Init == InitStore /\ keyer = NoKeyer /\ emitter = NoEmitter

Next ==
    \/ Tick
    \/ ProcessRestart
    \/ \E t \in Tasks :
          \/ StartCall(t) \/ StartGet(t) \/ StartSet(t)
          \/ StartDelete(t) \/ StartClear(t) \/ StartCleanup(t)
          \/ CacheDelete(t)
          \/ MemGet(t) \/ MemSet(t) \/ MemDelete(t) \/ MemClear(t)
          \/ DiskGet(t) \/ DiskSetBegin(t) \/ DiskSetMkdir(t) \/ DiskSetOpen(t)
          \/ DiskSetWrite(t) \/ DiskSetReplace(t) \/ DiskDelete(t) \/ DiskClear(t)
          \/ DiskCleanup(t)
          \/ MgrInitFail(t)
          \/ MgrGetReturn(t) \/ MgrSetReturn(t) \/ MgrDeleteReturn(t)
          \/ MgrClearReturn(t)
          \/ WorkStart(t) \/ WorkReturn(t) \/ WorkRaise(t)
          \/ Return(t)

Spec == Init /\ [][Next]_vars

\* What the event loop does for caller t once its call is under way: the
\* loop runs every coroutine that is ready, and awaited work finishes.
Progress(t) ==
    \/ MemGet(t) \/ MemSet(t) \/ MemDelete(t) \/ MemClear(t)
    \/ DiskGet(t) \/ DiskSetBegin(t) \/ DiskSetMkdir(t) \/ DiskSetOpen(t)
    \/ DiskSetWrite(t) \/ DiskSetReplace(t) \/ DiskDelete(t) \/ DiskClear(t)
    \/ DiskCleanup(t)
    \/ MgrInitFail(t)
    \/ MgrGetReturn(t) \/ MgrSetReturn(t) \/ MgrDeleteReturn(t)
    \/ MgrClearReturn(t)
    \/ WorkStart(t) \/ WorkReturn(t) \/ WorkRaise(t)
    \/ Return(t)

\* The runs with two callers.
InitConcurrent == Init /\ dom.callers = Tasks

\* Two callers under a fair event loop.  The loop runs its ready queue in
\* FIFO order, so a caller that is ready again and again is run: another
\* caller being executed in between does not starve it.
FairSpec ==
    InitConcurrent /\ [][Next]_vars /\ \A t \in Tasks : SF_vars(Progress(t))

\* --------------------------------------------------- build_cache_key
\* inspect.signature(func).parameters of fetch_data(item_id, api_key)
Params == <<"item_id", "api_key">>

\* The parameter names in the order sorted() puts them.
NameOrder == <<"api_key", "item_id">>

\* The arguments passed: the ints -1 and -2 and the list [1], each named by
\* its str().
KValues == {"-1", "-2", "[1]"}

\* hash(v): CPython gives -2 for both -1 and -2; a list raises TypeError.
PyHash(v) == CASE v = "-1" -> "-2"
               [] v = "-2" -> "-2"
               [] OTHER -> "TypeError"

\* str(hash(v)), and str(v) when hash raised TypeError.
Token(v) == IF PyHash(v) = "TypeError" THEN v ELSE PyHash(v)

\* A builder that excludes no positional argument.
ExcludedNever(i, ex) == FALSE

\* `exclude_set and i < len(arg_names) and arg_names[i] in exclude_set`
\* (i counts from 1 here)
Excluded(i, ex) == ex # {} /\ i <= Len(Params) /\ Params[i] \in ex

\* The loop over enumerate(args), from the i-th argument on.
RECURSIVE PosParts(_, _, _)
PosParts(pos, i, ex) ==
    IF i > Len(pos) THEN <<>>
    ELSE (IF Excluded(i, ex) THEN <<>> ELSE <<Token(pos[i])>>)
         \o PosParts(pos, i + 1, ex)

\* A builder that takes the keyword arguments in the order of supply.
KwUnsorted(kw) == kw

\* sorted(kwargs.items()): the items by name.
KwSorted(kw) ==
    LET given == SelectSeq(NameOrder,
                           LAMBDA n : \E i \in 1..Len(kw) : kw[i].name = n)
    IN  [j \in 1..Len(given) |->
            kw[CHOOSE i \in 1..Len(kw) : kw[i].name = given[j]]]

\* A keyword token that leaves the name out.
KwTokenNameless(it) == <<Token(it.value)>>

\* f"{k}:{hash(v)}", and f"{k}:{str(v)}" when hash raised TypeError: two
\* fields of the joined string, since the parts are joined by ":".
KwToken(it) == <<it.name, Token(it.value)>>

\* The loop over the sorted items, from the j-th on.
RECURSIVE KwParts(_, _, _)
KwParts(items, j, ex) ==
    IF j > Len(items) THEN <<>>
    ELSE (IF items[j].name \in ex THEN <<>>
          ELSE KwToken(items[j]))
         \o KwParts(items, j + 1, ex)

\* key_str = f"{module_name}.{func_name}:{':'.join(arg_parts)}", as the
\* sequence of its ":"-separated fields.
KeyStr(c, ex) ==
    <<"__main__.fetch_data">> \o PosParts(c.pos, 1, ex)
                              \o KwParts(KwSorted(c.kw), 1, ex)

\* A digest that maps every string to one value.
DigestConstant(str) == [md5 |-> <<>>]

\* hashlib.md5(key_str.encode()).hexdigest(): no two strings of the model
\* have the same digest.
Digest(str) == [md5 |-> str]

\* `key_prefix or settings.key_prefix`: None and "" give the default.
Prefix(key_prefix) == IF key_prefix \in {NoneV, ""} THEN "retainit" ELSE key_prefix

\* key_builder(func, *args, **kwargs) of a builder that uses all it is given.
CustomKey(c) == [custom |-> c]

\* build_cache_key(func, args, kwargs, key_builder, key_prefix, exclude_args)
BuildCacheKey(c, cfg) ==
    IF cfg.key_builder # NoneV THEN CustomKey(c)
    ELSE [prefix |-> Prefix(cfg.key_prefix), hash |-> Digest(KeyStr(c, cfg.exclude))]

\* The ways to call fetch_data with both of its arguments.
Kw(n, v) == [name |-> n, value |-> v]
KCalls ==
    UNION {{ [pos |-> <<x, y>>, kw |-> <<>>],
             [pos |-> <<x>>, kw |-> <<Kw("api_key", y)>>],
             [pos |-> <<>>, kw |-> <<Kw("item_id", x), Kw("api_key", y)>>],
             [pos |-> <<>>, kw |-> <<Kw("api_key", y), Kw("item_id", x)>>] }
           : x \in KValues, y \in KValues}

\* The arguments of retain.
KCfgs == [key_builder : {NoneV, "custom"}, key_prefix : {NoneV, "", "user_data"},
          exclude : {{}, {"api_key"}}]

\* wrapper(*args, **kwargs): one more call of the decorated function.
KeyCall ==
    /\ Len(keyer.calls) = Len(keyer.keys)
    /\ Len(keyer.calls) < 2
    /\ \E c \in KCalls : keyer' = [keyer EXCEPT !.calls = Append(@, c)]
    /\ UNCHANGED <<now, backend, max_size, settings_ttl, dom, compression,
                   initialized, backend_obj, memVars, diskVars, rt, task, emitter>>

\* _get_cached_value: key = build_cache_key(...) for the call just made.
KeyBuild ==
    /\ Len(keyer.keys) < Len(keyer.calls)
    /\ keyer' = [keyer EXCEPT !.keys =
           Append(@, BuildCacheKey(keyer.calls[Len(keyer.keys) + 1], keyer.cfg))]
    /\ UNCHANGED <<now, backend, max_size, settings_ttl, dom, compression,
                   initialized, backend_obj, memVars, diskVars, rt, task, emitter>>

\* A decorated function before its first call; the store is not touched.
KeyInit ==
    /\ InitStore /\ InitDiskKeys
    /\ \E cfg \in KCfgs : keyer = [NoKeyer EXCEPT !.cfg = cfg]
    /\ emitter = NoEmitter

KeyNext == KeyCall \/ KeyBuild

KeySpec == KeyInit /\ [][KeyNext]_vars

\* A fresh emitter; the store is not touched.
EmitInit == InitStore /\ InitDiskKeys /\ keyer = NoKeyer /\ emitter = NoEmitter

EmitNext ==
    \/ \E ty \in EventTypes, h \in Handlers : Subscribe(ty, h)
    \/ \E ty \in EventTypes, h \in Handlers : Unsubscribe(ty, h)
    \/ \E ty \in EventTypes, h \in Handlers : AddDefaultHandler(ty, h)
    \/ Enable
    \/ Disable
    \/ \E ty \in EventTypes : EmitEvent(ty)

EmitSpec == EmitInit /\ [][EmitNext]_vars

\* ------------------------------------------------------------ claims
HasEvent(t, ty) == \E i \in 1..Len(task[t].trace) : task[t].trace[i].type = ty
Ran(t) == HasEvent(t, "function_call_start")
SetCalled(t) ==
    \E i \in 1..Len(task[t].trace) :
        \/ task[t].trace[i].type = "cache_set"
        \/ task[t].trace[i].type = "cache_error" /\ task[t].trace[i].operation = "set"
EntryExists(k) == IF backend = "memory" THEN Has(cache, k) ELSE fs[KeyToPath(k)].exists
IOStages == {"io_mkdir", "io_open", "io_write", "io_replace"}

\* The call of t went through the orchestrator: it is neither a sync call
\* that failed in sync_wrapper, nor a cache_delete whose coroutine was
\* dropped, nor a cleanup_expired, which is called on the backend itself.
Entered(t) ==
    /\ task[t].ret.kind # "coroutine" /\ task[t].ret # Res("raise", LoopError)
    /\ task[t].op # "cleanup"

\* C1 (as claimed): a bridge call whose get reads a live entry that an
\* earlier call stored under its key returns the stored value and does not
\* invoke the work.
C1_SecondCallSkipsWork ==
    \A t \in Tasks :
        ( /\ task[t].op = "call" /\ task[t].pc = "done"
          /\ task[t].seen.present /\ ~task[t].seen.expired
          /\ task[t].rtv.by = "call" )
        => ~Ran(t) /\ task[t].ret = Res("value", task[t].seen.value)

\* C2: a get that read an entry whose expiry is before the time of the read
\* never hands out that entry's value: not from the backend, not from the
\* orchestrator, not as a hit of the bridge.
C2_NoExpiredValue ==
    \A t \in Tasks :
        task[t].seen.expired =>
            /\ ~HasEvent(t, "cache_hit")
            /\ task[t].bop = "get" => task[t].bres.v = NoneV
            /\ task[t].op = "get" => task[t].ret.v = NoneV

C2_Witness ==
    \E t \in Tasks : task[t].seen.expired /\ task[t].seen.value # NoneV

\* C3 (as claimed): a memory get that finds its entry expired completes
\* (it is not left waiting), returns absent, and the map no longer holds
\* the key.
C3_ExpiredGetCompletes ==
    \A t \in Tasks :
        (backend = "memory" /\ task[t].bop = "get" /\ task[t].seen.expired)
        => /\ task[t].pc # "blocked"
           /\ task[t].pc = "mgr_ret" =>
                 task[t].bres = Res("value", NoneV) /\ ~Has(cache, task[t].key)

\* C4 (as claimed): a disk get that finds its file expired, with no I/O
\* failure, completes, reports a miss, and the file is gone afterwards.
C4_ExpiredFileGetCompletes ==
    \A t \in Tasks :
        ( /\ backend = "disk" /\ task[t].bop = "get"
          /\ task[t].seen.expired /\ ~task[t].iofail )
        => /\ task[t].pc # "blocked"
           /\ task[t].pc = "mgr_ret" =>
                 /\ task[t].bres = Res("value", NoneV)
                 /\ ~fs[KeyToPath(task[t].key)].exists

\* The work of call t raised (WorkRaise leaves the exception in val).
WorkFailed(t) ==
    task[t].op = "call" /\ task[t].pc = "done" /\ task[t].val \in WorkErrors

C5_Propagates(t) ==
    /\ task[t].ret = Res("raise", task[t].val)
    /\ task[t].val \in WorkErrors
    /\ ~SetCalled(t)
    /\ task[t].trace[Len(task[t].trace)] =
           Event("function_error", "none", task[t].key)

\* C5 (as claimed): when the work raises, the failure reaches the caller,
\* set is not called, a function-error notification names the call, and no
\* entry exists for the key afterwards.
C5_NoEntryAfterFailure ==
    \A t \in Tasks :
        WorkFailed(t) => C5_Propagates(t) /\ ~EntryExists(task[t].key)

C5_Inv == \A t \in Tasks : WorkFailed(t) => C5_Propagates(t)

C5_Step ==
    \A t \in Tasks :
        (task[t].pc \in {"awaiting", "executing"} /\ task'[t].pc = "done")
        => UNCHANGED <<cache, fs>>

\* C5 (amended): when the work raises, immediate or deferred, the same
\* failure reaches the caller, the call never calls set, its last
\* notification is a function-error carrying its key, and the step on
\* which it fails leaves the store as it was.
C5_FailureStoresNothing == []C5_Inv /\ [][C5_Step]_vars

C5_Witness ==
    \E t \in Tasks : WorkFailed(t) /\ task[t].deferred /\ Ran(t)

\* C6: once the backend is constructed, no backend exception reaches a
\* caller of the orchestrator.  The only other
\* failure a caller sees is the one of its own wrapped work; a get whose
\* backend raised returns absent; a bridge call whose work returned gets
\* that result whatever the cache get and set did.
C6_BackendFailuresContained ==
    \A t \in Tasks :
        task[t].pc = "done" =>
            /\ ( /\ task[t].ret.kind = "raise" /\ Entered(t)
                 /\ task[t].ret.v \notin ConstructErrors ) =>
                  task[t].op = "call" /\ Ran(t) /\ task[t].ret.v \in WorkErrors
            /\ (task[t].op = "get" /\ HasEvent(t, "cache_error")) =>
                  task[t].ret = Res("value", NoneV)
            /\ (task[t].op = "call" /\ HasEvent(t, "function_call_end")) =>
                  task[t].ret = Res("value", task[t].val)

C6_Witness ==
    \E t \in Tasks :
        /\ task[t].pc = "done" /\ task[t].op = "call"
        /\ Len(task[t].trace) > 1
        /\ task[t].trace[1].type = "cache_error"
        /\ task[t].trace[Len(task[t].trace)] = Event("cache_error", "set", task[t].key)
        /\ task[t].ret = Res("value", "v1")

C8_Bounded == Truthy(max_size) => Len(cache) <= max_size

C8_Witness ==
    /\ Truthy(max_size) /\ Len(cache) = max_size
    /\ \E t \in Tasks : task[t].pc = "mgr_ret" /\ task[t].ev.key # "-"

C9_SetStep(t) ==
    /\ backend = "memory"
    /\ task[t].pc = "backend" /\ task[t].bop = "set" /\ task'[t].pc = "mgr_ret"

C9_GetStep(t) ==
    /\ backend = "memory"
    /\ task[t].pc = "backend" /\ task[t].bop = "get" /\ task'[t].pc = "mgr_ret"

C9_Step ==
    \A t \in Tasks :
        /\ ( /\ C9_SetStep(t)
             /\ Truthy(max_size) /\ Len(cache) = max_size
             /\ ~Has(cache, task[t].key) )
           => \E i \in 1..Len(cache) :
                 /\ \A j \in 1..Len(cache) :
                        cache[j].last_access >= cache[i].last_access
                 /\ ~Has(cache', cache[i].key)
                 /\ \A j \in 1..Len(cache) : j # i => Has(cache', cache[j].key)
                 /\ Has(cache', task[t].key)
        /\ (C9_GetStep(t) /\ Has(cache, task[t].key))
           => /\ Has(cache', task[t].key)
              /\ Lookup(cache', task[t].key).last_access = now

\* C9: a memory set of a new key into a full map removes exactly one entry,
\* one whose last_access is the smallest, and then inserts; a get that
\* returns an entry sets that entry's last_access to the time of the get.
C9_LruEviction == [][C9_Step]_vars

\* An entry inserted before the victim is still there: it was accessed
\* after the victim was.
C9_Witness ==
    \E t \in Tasks :
        /\ task[t].pc = "mgr_ret" /\ task[t].bop = "set"
        /\ task[t].ev.pos = 2 /\ Len(cache) = 2 /\ max_size = 2
        /\ cache[1].last_access > task[t].ev.last_access

C10_TargetComplete == \A p \in Paths : fs[p].exists => fs[p].complete

C10_Renamed(t) ==
    /\ task[t].pc = "io_replace" /\ task'[t].pc = "mgr_ret" /\ ~task'[t].iofail

C10_Step ==
    /\ \A t \in Tasks :
          (task[t].pc \in IOStages /\ ~C10_Renamed(t))
          => \A p \in Paths : fs'[p] = fs[p]
    /\ \A p \in Paths :
          fs'[p] # fs[p] =>
              \/ fs'[p] = NoFile
              \/ \E t \in Tasks :
                    /\ C10_Renamed(t) /\ p = KeyToPath(task[t].key)
                    /\ fs'[p] = Serialize(task[t].data, compression)

\* C10: the target file of a key is always absent or a complete envelope;
\* it changes only by removal or by the rename of a set, which puts the
\* set's complete envelope there; every other step of a set, a failing one
\* and the kill of the process included, leaves every target file as it was.
C10_AtomicReplace == []C10_TargetComplete /\ [][C10_Step]_vars

\* The process was killed in the middle of a write: the temporary file is
\* cut short, the target still holds the previous envelope.
C10_Witness ==
    \E k \in Keys :
        /\ fs[TempPath(KeyToPath(k))].exists
        /\ ~fs[TempPath(KeyToPath(k))].complete
        /\ fs[KeyToPath(k)].exists /\ fs[KeyToPath(k)].complete
        /\ \A t \in Tasks : task[t].pc = "idle"

\* The callers that are between open(temp_path) and os.replace on the
\* temporary file q.
Writers(q) ==
    {t \in Tasks : /\ backend = "disk" /\ task[t].pc \in IOStages
                   /\ TempPath(KeyToPath(task[t].key)) = q}

C12_NoTempAfterSet ==
    \A t \in Tasks :
        (backend = "disk" /\ task[t].bop = "set" /\ task[t].pc = "mgr_ret")
        => ~fs[TempPath(KeyToPath(task[t].key))].exists

\* Caller t is inside `async with file_lock` for path p: a set between its
\* first and last file system call, or a get that found its file expired
\* and awaits the delete.  (Every other section is entered and left within
\* one step of the event loop.)
InSection(t, p) ==
    /\ backend = "disk" /\ KeyToPath(task[t].key) = p
    /\ \/ task[t].pc \in IOStages
       \/ task[t].pc = "blocked" /\ task[t].bop = "get" /\ task[t].seen.expired

C13_Inv ==
    \A p \in Paths :
        /\ Cardinality({t \in Tasks : InSection(t, p)}) <= 1
        /\ \A t \in Tasks : InSection(t, p) => HasLock(p) /\ Holder(p) = t

\* The lock table is dropped by a clear only when no caller holds or waits
\* for a lock of it, so no lock of the old table is in use next to a fresh
\* lock for the same path.
C13_Step ==
    (file_locks # <<>> /\ file_locks' = <<>> /\ \E t \in Tasks : task'[t].pc # "idle")
    => \A u \in Tasks : task[u].pc # "blocked"

C14_Cleared(t) ==
    /\ backend = "disk" /\ task[t].bop = "clear"
    /\ task[t].pc = "backend" /\ task'[t].pc = "mgr_ret"

C14_Step ==
    \A t \in Tasks :
        C14_Cleared(t)
        => /\ \A u \in Tasks, p \in Paths : ~InSection(u, p)
           /\ \A i \in 1..Len(file_locks) : file_locks[i].holder = 0
           /\ global_lock = 0

\* C14: on the step on which clear removes and recreates the directory
\* tree, no caller is inside the lock-protected section of any path and no
\* lock is held.
C14_ClearExcludesSections == [][C14_Step]_vars

\* A clear went through while the other caller was in the middle of a
\* bridge call, outside every section.
C14_Witness ==
    \E t, u \in Tasks :
        /\ t # u /\ backend = "disk"
        /\ task[t].bop = "clear" /\ task[t].pc = "mgr_ret" /\ ~task[t].iofail
        /\ task[u].op = "call" /\ task[u].pc = "awaiting"
        /\ file_locks = <<>>

\* A get found its entry expired and waits for the lock it holds itself.
Stuck ==
    \E u \in Tasks :
        task[u].pc = "blocked" /\ task[u].bop = "get" /\ task[u].seen.expired

\* No caller is under way and no lock is held.
Quiet ==
    /\ mlock = 0 /\ global_lock = 0
    /\ \A i \in 1..Len(file_locks) : file_locks[i].holder = 0

C15_Inv ==
    ~Stuck => /\ \A t \in Tasks : task[t].pc # "blocked"
              /\ (\A t \in Tasks : task[t].pc \notin IOStages) => Quiet

\* C15: under a fair event loop, as long as no get meets an expired entry,
\* no caller ever has to wait for a lock, every call of get, set, delete,
\* clear and cleanup_expired returns, and between calls no lock is held.
C15_ClearNeverDeadlocks ==
    /\ []C15_Inv
    /\ \A t \in Tasks : (task[t].pc # "idle") ~> (task[t].pc = "idle" \/ Stuck)

\* A clear is under way while the other caller is in the middle of a call.
C15_Witness ==
    \E t, u \in Tasks :
        /\ t # u /\ backend = "disk" /\ ~Stuck
        /\ task[t].bop = "clear" /\ task[t].pc = "backend"
        /\ task[u].op = "call" /\ task[u].pc = "awaiting"
        /\ file_locks # <<>>

\* Bridge call t has determined a miss and has not yet completed its set.
BetweenMissAndSet(t) ==
    /\ task[t].op = "call" /\ HasEvent(t, "cache_miss")
    /\ ~SetCalled(t) /\ task[t].pc # "done"

\* C16 (as claimed): while a bridge call is between its miss and the
\* completion of its set, no set or delete of another caller on the same
\* key takes effect; in particular no second bridge call that also missed
\* stores its result.
C16_MissToSetExclusive ==
    \A t, u \in Tasks :
        (t # u /\ BetweenMissAndSet(t) /\ task[u].key = task[t].key)
        => ~( /\ task[u].pc = "mgr_ret" /\ task[u].bop \in {"set", "delete"}
              /\ task[u].bres.kind = "value" /\ ~task[u].iofail )

\* The types of the notifications of caller t, in the order of emission.
Types(t) == [i \in 1..Len(task[t].trace) |-> task[t].trace[i].type]

\* C17: in a bridge call, call-started is the second notification and
\* follows the miss (or the error of a get that failed), call-ended is the
\* third and follows call-started, the set notification is the fourth and
\* follows call-ended; a call that missed, whose work returned and whose
\* set stored has emitted exactly miss, call-started, call-ended, set.
C17_NotificationOrder ==
    \A t \in Tasks :
        task[t].op = "call" =>
            /\ \A i \in 1..Len(Types(t)) :
                  /\ Types(t)[i] = "function_call_start"
                     => i = 2 /\ Types(t)[1] \in {"cache_miss", "cache_error"}
                  /\ Types(t)[i] = "function_call_end"
                     => i = 3 /\ Types(t)[2] = "function_call_start"
                  /\ Types(t)[i] = "cache_set"
                     => i = 4 /\ Types(t)[3] = "function_call_end"
            /\ ( /\ task[t].pc = "done" /\ HasEvent(t, "cache_miss")
                 /\ task[t].val \notin WorkErrors /\ ~task[t].iofail )
               => Types(t) = <<"cache_miss", "function_call_start",
                               "function_call_end", "cache_set">>

C17_Witness ==
    \E t \in Tasks :
        /\ task[t].op = "call" /\ task[t].pc = "done" /\ task[t].deferred
        /\ Types(t) = <<"cache_miss", "function_call_start",
                        "function_call_end", "cache_set">>

C18_Inv ==
    /\ backend_obj \in {0, 1}
    /\ initialized <=> backend_obj = 1
    /\ ~initialized => /\ cache = <<>> /\ mlock = 0
                       /\ file_locks = <<>> /\ global_lock = 0
                       /\ \A t \in Tasks : task[t].pc \in {"idle", "backend", "done"}

C18_Step ==
    backend_obj' # backend_obj
    => \/ /\ backend_obj = 0 /\ backend_obj' = 1
          /\ \E t \in Tasks : task[t].pc = "backend" /\ task'[t].pc # "backend"
       \/ /\ backend_obj' = 0
          /\ \A t \in Tasks : task'[t].pc = "idle"

\* C18: the orchestrator holds no backend until the first get, set, delete
\* or clear reaches it; that call constructs one; from then on, whatever
\* the callers do, the backend in use is that first instance, until the
\* process ends.
C18_OneBackend == []C18_Inv /\ [][C18_Step]_vars

\* Two callers are served by the backend the first of them constructed.
C18_Witness ==
    \E t, u \in Tasks :
        /\ t # u /\ backend_obj = 1
        /\ task[t].pc = "mgr_ret" /\ task[u].pc = "awaiting"

C20_OneNotification ==
    \A t \in Tasks :
        /\ ( /\ task[t].op = "get" /\ task[t].pc = "done"
             /\ task[t].ret.v \notin ConstructErrors )
           => /\ Len(task[t].trace) = 1
              /\ Types(t)[1] = "cache_hit"
                 <=> (task[t].seen.present /\ ~task[t].seen.expired)
              /\ Types(t)[1] = "cache_hit"
                 => task[t].ret = Res("value", task[t].seen.value)
              /\ Types(t)[1] = "cache_miss"
                 <=> ( /\ task[t].bres.kind # "raise"
                       /\ ~task[t].seen.present \/ task[t].seen.expired )
              /\ Types(t)[1] = "cache_error" <=> task[t].bres.kind = "raise"
        /\ (task[t].op = "get" /\ task[t].seen.expired) => task[t].pc # "blocked"

\* C21 (as claimed): for one key, one cache state and one outcome of the
\* wrapped work, a bridge call does the same orchestrator operations, emits
\* the same notifications in the same order and yields the same result or
\* failure whether the work is immediate or deferred.  What a finished call
\* shows is then one of the behaviours below, none of which depends on the
\* kind of work: the construction failure of the get, a hit, a miss or a
\* failed get followed by the work's failure, or followed by the work's
\* result and the set.
C21_SyncAsyncAlike ==
    \A t \in Tasks :
        (task[t].op = "call" /\ task[t].pc = "done") =>
            LET ty == Types(t)
                r == task[t].ret
            IN  \/ ty = <<>> /\ r.kind = "raise" /\ r.v \in ConstructErrors
                \/ ty = <<"cache_hit">> /\ r.kind = "value"
                \/ /\ Len(ty) = 3
                   /\ ty[1] \in {"cache_miss", "cache_error"}
                   /\ ty[2] = "function_call_start"
                   /\ ty[3] = "function_error"
                   /\ r = Res("raise", task[t].val)
                \/ /\ Len(ty) = 4
                   /\ ty[1] \in {"cache_miss", "cache_error"}
                   /\ ty[2] = "function_call_start"
                   /\ ty[3] = "function_call_end"
                   /\ ty[4] \in {"cache_set", "cache_error"}
                   /\ r = Res("value", task[t].val)

\* C22 (as claimed): a call of a synchronous wrapped function made while an
\* event loop is running is driven to completion on that loop; it never ends
\* with the error of running a loop that is already running.
C22_SyncCallInRunningLoop ==
    \A t \in Tasks :
        (task[t].op = "call" /\ ~task[t].deferred /\ task[t].pc = "done")
        => task[t].ret # Res("raise", LoopError)

\* C23 (as claimed): when wrapper.cache_delete(a) has returned to its caller
\* without an I/O failure, the store holds no entry under the key of f(a),
\* so the next f(a) misses and runs the work again.
C23_CacheDeleteRemoves ==
    \A t \in Tasks :
        ( /\ task[t].op = "cache_delete" /\ task[t].pc = "done"
          /\ ~task[t].iofail /\ task[t].ret.kind # "raise" )
        => ~EntryExists(task[t].key)

\* The two calls of the decorated function whose keys were built.
KeyedTwice == Len(keyer.keys) = 2
DefaultBuilder == keyer.cfg.key_builder = NoneV

\* The value call c binds to parameter n, and whether by position.
ByPosition(c, n) == \E i \in 1..Len(c.pos) : Params[i] = n
KArg(c, n) ==
    IF ByPosition(c, n) THEN c.pos[CHOOSE i \in 1..Len(c.pos) : Params[i] = n]
    ELSE c.kw[CHOOSE i \in 1..Len(c.kw) : c.kw[i].name = n].value

\* kwargs as the dict it is: the items whatever their order of supply.
KwSet(c) == {c.kw[i] : i \in 1..Len(c.kw)}

\* C24: with the default key construction and "api_key" excluded, two calls
\* that pass the same item_id the same way have the same key whatever value
\* they pass as api_key, and whether they pass it by position or by keyword.
C24_ExcludedValueIgnored ==
    (KeyedTwice /\ DefaultBuilder /\ "api_key" \in keyer.cfg.exclude) =>
        LET c1 == keyer.calls[1]
            c2 == keyer.calls[2]
        IN  ( /\ ByPosition(c1, "item_id") <=> ByPosition(c2, "item_id")
              /\ KArg(c1, "item_id") = KArg(c2, "item_id") )
            => keyer.keys[1] = keyer.keys[2]

\* fetch_data(x, s1) and fetch_data(x, s2) with two different secrets.
C24_Witness ==
    /\ KeyedTwice /\ DefaultBuilder /\ keyer.cfg.exclude = {"api_key"}
    /\ Len(keyer.calls[1].pos) = 2 /\ Len(keyer.calls[2].pos) = 2
    /\ keyer.calls[1].pos[1] = keyer.calls[2].pos[1]
    /\ keyer.calls[1].pos[2] # keyer.calls[2].pos[2]
    /\ keyer.keys[1] = keyer.keys[2]

Effective(c, ex) ==
    [pos |-> {<<i, c.pos[i]>> : i \in {j \in 1..Len(c.pos) : ~Excluded(j, ex)}},
     kw |-> {it \in KwSet(c) : it.name \notin ex}]

C27_FailedSetReported ==
    \A t \in Tasks :
        ( /\ backend = "disk" /\ task[t].bop = "set" /\ task[t].pc = "done"
          /\ task[t].iofail )
        => /\ task[t].ret.kind # "raise"
           /\ \E i \in 1..Len(task[t].trace) :
                 task[t].trace[i] = Event("cache_error", "set", task[t].key)
           /\ ~HasEvent(t, "cache_set")

\* The file does not give back an envelope: it is cut short, was written in
\* the other format, or holds something that is not a dict.
Undeserializable(f) ==
    f.exists /\ (~Deserialize(f, compression).ok \/ DataGet(f) # "ok")

\* C28 (as claimed): a disk get whose file cannot be deserialized into an
\* envelope returns absent and raises nothing to its caller.
C28_CorruptFileIsMiss ==
    \A t \in Tasks :
        ( /\ backend = "disk" /\ task[t].bop = "get" /\ task[t].pc = "mgr_ret"
          /\ ~task[t].iofail
          /\ Undeserializable(fs[KeyToPath(task[t].key)]) )
        => task[t].bres = Res("value", NoneV)

\* C29 (as claimed): the result of a call of a function decorated with
\* retain(backend="disk") is stored in the disk backend and not in the
\* default one.
C29_OverrideBackendUsed ==
    \A t \in Tasks :
        ( /\ task[t].op = "call" /\ task[t].obackend = "disk"
          /\ task[t].pc = "done" /\ HasEvent(t, "cache_set") )
        => /\ fs[KeyToPath(task[t].key)].exists
           /\ ~Has(cache, task[t].key)

\* C30 (as claimed): every error notification of the orchestrator names the
\* operation that failed: get, set, delete or clear.
C30_ErrorNamesOperation ==
    \A t \in Tasks :
        \A i \in 1..Len(task[t].trace) :
            task[t].trace[i].type = "cache_error"
            => task[t].trace[i].operation \in {"get", "set", "delete", "clear"}

\* A step of the backend's get, set or delete that task t called.
C31_BackendStep(t) ==
    /\ task[t].pc \in {"backend"} \cup IOStages
    /\ task[t].bop \in {"get", "set", "delete"}
    /\ task'[t] # task[t]
    /\ task'[t].pc # "idle"

C31_Step ==
    \A t \in Tasks :
        C31_BackendStep(t)
        => LET K == task[t].key
               victims == {x \in Keys \ {K} : Has(cache, x) /\ ~Has(cache', x)}
               atCapacity == /\ Construct(backend) = "memory"
                             /\ task[t].bop = "set"
                             /\ task'[t].pc = "mgr_ret"
                             /\ Truthy(max_size) /\ Len(cache) >= max_size
                             /\ ~Has(cache, K)
           IN  /\ \A x \in Keys \ {K} :
                     /\ ~Has(cache, x) => ~Has(cache', x)
                     /\ (Has(cache, x) /\ Has(cache', x))
                        => /\ Lookup(cache', x).value = Lookup(cache, x).value
                           /\ Lookup(cache', x).expiry = Lookup(cache, x).expiry
                     /\ fs'[KeyToPath(x)] = fs[KeyToPath(x)]
                     /\ fs'[TempPath(KeyToPath(x))] = fs[TempPath(KeyToPath(x))]
               /\ IF atCapacity
                  THEN \E v \in victims :
                          /\ victims = {v}
                          /\ \A j \in 1..Len(cache) :
                                cache[j].last_access >= Lookup(cache, v).last_access
                  ELSE victims = {}

\* C31: a get, set or delete on key K leaves the value and expiry of every
\* other key as they were, in the map and on disk; the one exception is a
\* memory set of a new key at capacity, which removes exactly one other
\* entry, the least recently used; a set on a key already present removes
\* nothing.
C31_FrameEffect == [][C31_Step]_vars

\* A set of a new key at capacity has evicted one entry and the entry of
\* another key is still there with the value that was stored for it.
C31_Witness ==
    \E t \in Tasks :
        /\ task[t].pc = "mgr_ret" /\ task[t].bop = "set"
        /\ task[t].ev.key # "-"
        /\ \E x \in Keys \ {task[t].key, task[t].ev.key} :
              Has(cache, x) /\ rt[x].v = Lookup(cache, x).value

\* What the store of the backend in use holds for key k.
StoreView(k) == IF Construct(backend) = "memory" THEN MemView(k) ELSE DiskView(k)

\* Task t's backend get goes through its locks and no I/O call fails.
C32_GetStep(t) ==
    /\ Construct(backend) \in {"memory", "disk"}
    /\ task[t].pc = "backend" /\ task[t].bop = "get"
    /\ task'[t].pc \in {"mgr_ret", "blocked"}
    /\ ~task'[t].iofail
    /\ IF Construct(backend) = "memory" THEN mlock = 0 ELSE DiskCanEnter(t)

C32_Step ==
    \A t \in Tasks :
        (C32_GetStep(t) /\ StoreView(task[t].key).present)
        => /\ task'[t].pc = "mgr_ret"
           /\ task'[t].bres =
                 Res("value", IF StoreView(task[t].key).expired THEN NoneV
                              ELSE StoreView(task[t].key).value)

\* C32 (as claimed): a get of an entry that was set without a ttl, or at a
\* time up to the expiry computed by set, returns the stored value, and a
\* get after the expiry reports the entry absent.
C32_ExpiryHonoured == [][C32_Step]_vars

\* Task t's backend delete goes through its lock and returns, no I/O call
\* having failed.
C33_DeleteStep(t) ==
    /\ Construct(backend) \in {"memory", "disk"}
    /\ task[t].pc = "backend" /\ task[t].bop = "delete"
    /\ task'[t].pc = "mgr_ret" /\ ~task'[t].iofail

\* Some backend set of key k stores its entry in this step.
C33_SetStep(k) ==
    \E u \in Tasks :
        /\ task[u].bop = "set" /\ task[u].key = k
        /\ task[u].pc \in {"backend", "io_replace"} /\ task'[u].pc = "mgr_ret"

C33_Step ==
    /\ \A t \in Tasks :
          C33_DeleteStep(t)
          => /\ task'[t].bres = Res("value", NoneV)
             /\ ~EntryExists(task[t].key) => (cache' = cache /\ fs' = fs)
             /\ ~Has(cache', task[t].key)
             /\ ~fs'[KeyToPath(task[t].key)].exists
    /\ \A k \in Keys :
          (~EntryExists(k) /\ ~C33_SetStep(k))
          => /\ ~Has(cache', k) /\ ~fs'[KeyToPath(k)].exists
             /\ \A t \in Tasks :
                   (C32_GetStep(t) /\ task[t].key = k)
                   => task'[t].bres = Res("value", NoneV)

\* C33: a delete of an absent key returns without error and leaves the map
\* and the files as they were; a delete leaves its key absent, so a second
\* delete is the delete of an absent key; and an absent key stays absent,
\* with every get of it a miss, until a set of that key stores it.
C33_DeleteIdempotent == [][C33_Step]_vars

\* A disk delete of a key has returned, its file is not there and the file
\* of another key is.
C33_Witness ==
    \E t \in Tasks :
        /\ backend = "disk"
        /\ task[t].op = "delete" /\ task[t].pc = "mgr_ret" /\ ~task[t].iofail
        /\ task[t].bres = Res("value", NoneV)
        /\ ~fs[KeyToPath(task[t].key)].exists
        /\ \E x \in Keys \ {task[t].key} : fs[KeyToPath(x)].exists

\* Task t's backend clear returns, no I/O call having failed.
C34_ClearStep(t) ==
    /\ Construct(backend) \in {"memory", "disk"}
    /\ task[t].pc = "backend" /\ task[t].bop = "clear"
    /\ task'[t].pc = "mgr_ret" /\ ~task'[t].iofail

C34_Step ==
    \A t \in Tasks :
        C34_ClearStep(t)
        => /\ task'[t].bres = Res("value", NoneV)
           /\ \A k \in Keys : ~(StoreView(k).present)'
           /\ Construct(backend) = "memory" => cache' = <<>>
           /\ Construct(backend) = "disk"
              => /\ \A q \in AllPaths : ~fs'[q].exists
                 /\ file_locks' = <<>>
                 /\ global_lock' = 0

\* C34: when clear returns without an I/O failure no key is present any
\* more, so every get is a miss; on disk no file and no temporary file is
\* left under the base directory, the lock table is empty and global_lock
\* is free.
C34_ClearEmpties == [][C34_Step]_vars

\* A disk clear has returned; the store held an entry for k1 when it ran
\* (seen), and now neither the file nor the lock table is there.
C34_Witness ==
    \E t \in Tasks :
        /\ backend = "disk"
        /\ task[t].op = "clear" /\ task[t].pc = "mgr_ret" /\ ~task[t].iofail
        /\ task[t].seen.present
        /\ ~fs[KeyToPath(task[t].key)].exists
        /\ file_locks = <<>>

\* Task t's cleanup_expired runs, no open or unlink of it failing.
C35_CleanupStep(t) ==
    /\ task[t].pc = "backend" /\ task[t].bop = "cleanup"
    /\ task'[t].pc \in {"done", "blocked"}
    /\ ~task'[t].iofail

\* The cache files cleanup_expired is to delete: unreadable or expired.
C35_Dead ==
    {p \in Paths :
        /\ fs[p].exists
        /\ \/ Undeserializable(fs[p])
           \/ Expired(Deserialize(fs[p], compression).data.expiry)}

C35_Step ==
    \A t \in Tasks :
        C35_CleanupStep(t)
        => /\ \A p \in Paths : fs'[p] = IF p \in C35_Dead THEN NoFile ELSE fs[p]
           /\ task'[t].pc = "done"
           /\ task'[t].ret = Res("count", NoneV)
           /\ task'[t].count = Cardinality(C35_Dead)

\* C35 (as claimed): cleanup_expired deletes exactly the cache files whose
\* envelope is unreadable or whose expiry has passed, leaves every other
\* file as it is, and returns the number of files it deleted.
C35_CleanupExact == [][C35_Step]_vars

\* A step of emit: the registrations and the switch are as they were.
C36_EmitStep ==
    /\ emitter' # emitter
    /\ emitter'.enabled = emitter.enabled
    /\ emitter'.defaults = emitter.defaults
    /\ emitter'.handlers = emitter.handlers

\* l1 is l, possibly with handlers appended.
C36_Extends(l1, l) == Len(l1) >= Len(l) /\ SubSeq(l1, 1, Len(l)) = l

C36_Step ==
    /\ C36_EmitStep
       => /\ emitter'.out = Res("value", NoneV)
          /\ emitter'.called =
                IF emitter.enabled
                THEN emitter.defaults[emitter'.emitted]
                         \o emitter.handlers[emitter'.emitted]
                ELSE <<>>
    /\ \A ty \in EventTypes :
          /\ Len(emitter'.handlers[ty]) > Len(emitter.handlers[ty])
             => C36_Extends(emitter'.handlers[ty], emitter.handlers[ty])
          /\ Len(emitter'.defaults[ty]) > Len(emitter.defaults[ty])
             => C36_Extends(emitter'.defaults[ty], emitter.defaults[ty])

\* C36: emit raises nothing to its caller whatever the handlers raise, and
\* calls every handler registered for the event type, the default handlers
\* first and the subscribed ones after them, each kind in the order of
\* registration, a handler that raises not stopping the ones after it;
\* while the emitter is disabled emit calls no handler.
C36_HandlersIsolated == [][C36_Step]_vars

\* An emit called a default handler, then the subscribed handler that
\* raises, then another subscribed handler, and returned.
C36_Witness ==
    /\ emitter.emitted \in EventTypes
    /\ emitter.out = Res("value", NoneV)
    /\ emitter.logged = <<"ValueError">>
    /\ Len(emitter.called) = 3
    /\ emitter.called[2] = "h2"
    /\ emitter.defaults[emitter.emitted] = <<emitter.called[1]>>
    /\ emitter.handlers[emitter.emitted] = <<"h2", emitter.called[3]>>

\* The get of t read a live entry whose value is None.
C37_ReadNone(t) ==
    /\ task[t].seen.present /\ ~task[t].seen.expired
    /\ task[t].seen.value = NoneV
    /\ task[t].pc = "done" /\ Len(task[t].trace) > 0

C38_TtlPassed ==
    \A t \in Tasks :
        task[t].op \in {"set", "call"}
        => task[t].bttl = IF task[t].ttl \in {NoneT, 0} THEN settings_ttl
                          ELSE task[t].ttl

\* A backend set called with ttl None or 0 stores its entry.
C38_SetStep(t) ==
    /\ Construct(backend) \in {"memory", "disk"}
    /\ task[t].bop = "set" /\ task[t].bttl \in {NoneT, 0}
    /\ task[t].pc \in {"backend", "io_replace"}
    /\ task'[t].pc = "mgr_ret" /\ ~task'[t].iofail

C38_Step ==
    \A t \in Tasks :
        C38_SetStep(t)
        => /\ (StoreView(task[t].key).present)'
           /\ ~(StoreView(task[t].key).expired)'
           /\ Construct(backend) = "memory"
              => Lookup(cache', task[t].key).expiry = NoneT
           /\ Construct(backend) = "disk"
              => fs'[KeyToPath(task[t].key)].expiry = NoneT

\* C38: the orchestrator's set passes the default ttl to the backend when
\* the caller's ttl is None or 0 and the caller's ttl otherwise, and a
\* backend set that receives ttl 0 stores, like one that receives None, an
\* entry without expiry, which is present and not expired.
C38_ZeroTtlIsNoTtl == []C38_TtlPassed /\ [][C38_Step]_vars

\* With the default ttl at 0 a set with ttl 0 has called the backend with
\* ttl 0, and the entry it stored has no expiry.
C38_Witness ==
    \E t \in Tasks :
        /\ backend = "memory" /\ settings_ttl = 0
        /\ task[t].op = "set" /\ task[t].pc = "mgr_ret"
        /\ task[t].ttl = 0 /\ task[t].bttl = 0
        /\ task[t].val # NoneV
        /\ Has(cache, task[t].key)
        /\ Lookup(cache, task[t].key).expiry = NoneT

\* A memory set by t of a new key into a full map that holds an entry whose
\* expiry has passed.
C39_SetAtCapacity(t) ==
    /\ C9_SetStep(t)
    /\ Truthy(max_size) /\ Len(cache) >= max_size
    /\ ~Has(cache, task[t].key)
    /\ \E i \in 1..Len(cache) : Expired(cache[i].expiry)

C39_Step ==
    /\ \A t \in Tasks :
          C39_SetAtCapacity(t)
          => \E i \in 1..Len(cache) :
                /\ \A j \in 1..Len(cache) :
                       cache[j].last_access >= cache[i].last_access
                /\ ~Has(cache', cache[i].key)
                /\ \A j \in 1..Len(cache) :
                       j # i => /\ Has(cache', cache[j].key)
                                /\ Lookup(cache', cache[j].key) = cache[j]
    /\ now' # now => cache' = cache

\* C39: the passing of time removes no entry, so an expired entry that was
\* not read keeps its place in the map; a set of a new key into a full map
\* evicts an entry whose last_access is the smallest, whether or not it has
\* expired, and every other entry, expired or not, stays as it is.
C39_EvictionIgnoresExpiry == [][C39_Step]_vars

\* The victim was live and the map still holds an expired entry that was
\* accessed after it.
C39_Witness ==
    \E t \in Tasks :
        /\ task[t].pc = "mgr_ret" /\ task[t].bop = "set"
        /\ task[t].ev.key # "-" /\ ~Expired(task[t].ev.expiry)
        /\ \E i \in 1..Len(cache) :
              /\ Expired(cache[i].expiry)
              /\ cache[i].last_access > task[t].ev.last_access

\* C40: with the default key construction, two calls that bind the same
\* value to a parameter that is not excluded, one by position and the other
\* by keyword, get different keys.
C40_PositionalVsKeyword ==
    (KeyedTwice /\ DefaultBuilder) =>
        LET c1 == keyer.calls[1]
            c2 == keyer.calls[2]
        IN  \A i \in 1..Len(Params) :
                ( /\ Params[i] \notin keyer.cfg.exclude
                  /\ ByPosition(c1, Params[i]) /\ ~ByPosition(c2, Params[i])
                  /\ KArg(c1, Params[i]) = KArg(c2, Params[i]) )
                => keyer.keys[1] # keyer.keys[2]

\* fetch_data(-1, -2) and fetch_data(-1, api_key=-2), nothing excluded.
C40_Witness ==
    /\ KeyedTwice /\ DefaultBuilder /\ keyer.cfg.exclude = {}
    /\ keyer.calls[1] = [pos |-> <<"-1", "-2">>, kw |-> <<>>]
    /\ keyer.calls[2] = [pos |-> <<"-1">>, kw |-> <<Kw("api_key", "-2")>>]
    /\ keyer.keys[1] # keyer.keys[2]

====
